---- MODULE Spec2Model ----
(***************************************************************************)
(* Model of the brm-server artifact storage stack:                         *)
(*   SimpleFileStorage            (files under a base directory)           *)
(*   ConcurrentArtifactStorage    (per-hash advisory file locks)           *)
(*   HashComputingArtifactStorage (promotion of unresolved hashes)         *)
(*                                                                         *)
(* Strings are sequences of tokens, a token standing for one character or  *)
(* for an indivisible run of characters, so that slicing (hash[:2]) and    *)
(* concatenation (Name + ":" + Repo) are computed as the code computes     *)
(* them.  A nil pointer is the empty sequence <<>>, a non-nil pointer to v *)
(* is <<v>>.  A nil error is the string "nil".                             *)
(***************************************************************************)
EXTENDS Integers, Sequences, FiniteSets, TLC

VARIABLES
    files,      \* the file system under baseDir: path -> [bytes, json, mtime]
    locks,      \* the flocks held: pairs <<lock path, process>>
    pc,         \* per caller: its position inside the call it is making
    call,       \* per caller: the call, its local variables and its result
    nops,       \* number of calls begun so far (also the clock)
    trashed,    \* history: hashes whose last reference a Delete removed, and that
                \* no Create or promotion has brought back since
    given,      \* history: the references the callers hold, as triples
                \* <<hash, name, repo>>: given by Create, given back by Delete
    uploadSessions, \* private registry: uuid -> *UploadSession
    http,       \* private registry: the last request served and its response
    stream,     \* proxy registry: the GetBlob being served, its pipes and goroutines
    mgr         \* StorageManager and RegistryManager: their maps and the last Create

vars == <<files, locks, pc, call, nops, trashed, given, uploadSessions, http, stream, mgr>>

----------------------------------------------------------------------------
(* Bounds of the model *)

MaxLen == 1         \* longest blob, in bytes
MaxTime == 2        \* largest caller-supplied timestamp
MaxRefs == 1        \* most references in the meta a caller passes
MaxOps == 3         \* calls made one after another by the sequential client
MaxHashOps == 2     \* calls made by the client that creates with unresolved hashes
NProcs == 2         \* concurrent callers

Bytes == {0, 1}
Data == UNION {[1..n -> Bytes] : n \in 0..MaxLen}
Times == 1..MaxTime
Sizes == {-1} \cup (0..MaxLen)
Procs == 1..NProcs

----------------------------------------------------------------------------
(* Values *)

NoErr == "nil"
ENOENT == "ENOENT"                    \* os.IsNotExist(err)
DecodeErr == "json decode error"
HashConflictError == "HashConflictError"
ReferenceNotFound == "reference not found"
ArtifactMissing == "artifact does not exist"
LockTimeout == "lock acquisition timeout"
MoveFailed == "failed to move from temp to final hash"
ExistingMetaFailed == "failed to get existing metadata"
TempCreateFailed == "failed to create with temp hash"
WriteFailed == "failed to write artifact data"

ArtifactReference(name, repo, ts) ==
    [Name |-> name, Repo |-> repo, ReferencedTimestamp |-> ts]

ArtifactMeta(hash, length, created, refs) ==
    [Hash |-> hash, Length |-> length, CreatedTimestamp |-> created, References |-> refs]

\* A regular file: its bytes, the ArtifactMeta its bytes decode to as JSON (none when
\* they do not decode), and the modification time that os.Stat reports.
DataFile(bytes, mtime) == [bytes |-> bytes, json |-> <<>>, mtime |-> mtime]
MetaFile(meta) == [bytes |-> <<>>, json |-> <<meta>>, mtime |-> 0]

NoFiles == [p \in {} |-> DataFile(<<>>, 0)]

WriteFile(f, p, c) == [q \in DOMAIN f \cup {p} |-> IF q = p THEN c ELSE f[q]]

\* io.Pipe(): nothing offered by a Write, neither end closed.  werr and rerr are the
\* errors the two ends were closed with, "" while open.
NewPipe == [offered |-> <<>>, werr |-> "", rerr |-> ""]

\* No GetBlob served by the proxy yet.  History kept for the properties: reachable
\* (whether the upstream would answer this request), cacheBranch (the branch Create
\* took), filled (per digest, the request time of the last miss whose Create read
\* the stream to EOF and wrote the meta), closedAgain (the calls of Close made after
\* the first one returned).
NoStream ==
    [phase |-> "none", name |-> <<>>, digest |-> <<>>, body |-> <<>>, size |-> 0,
     now |-> 0, sent |-> 0, upstreamClosed |-> FALSE, chunk |-> <<>>,
     streamPc |-> "done", streamErr |-> "",
     cachePc |-> "done", cacheBuf |-> <<>>, cacheErr |-> "",
     cachePipe |-> NewPipe, responsePipe |-> NewPipe,
     clientPc |-> "closed", received |-> <<>>, outcome |-> "",
     reachable |-> TRUE, cacheBranch |-> "", filled |-> [d \in {} |-> 0],
     closedAgain |-> 0]

\* GetManager(): both managers hold no instance; nothing has been created yet.
NoManagers ==
    [storages |-> [a \in {} |-> <<>>], configs |-> [a \in {} |-> <<>>],
     registries |-> [a \in {} |-> <<>>],
     last |-> [op |-> "none", className |-> "", alias |-> <<>>,
               err |-> "", panicked |-> FALSE, instance |-> <<>>]]

\* make(map[string]*UploadSession)
NoSessions == [u \in {} |-> <<>>]

\* No request served yet.  A request is its method and route (op), its path and
\* query parameters, its Content-Range start (-1 without the header) and its body;
\* a response is its status (0 when the handler wrote none), the code of the
\* RegistryError written, its body and its Docker-Content-Digest, Range and
\* Docker-Upload-UUID headers.  received is history: the bytes a blob write path
\* handed to PutBlob.
NoRequest ==
    [op |-> "none", name |-> <<>>, reference |-> <<>>, uuid |-> <<>>, digest |-> <<>>,
     data |-> <<>>, offset |-> -1,
     status |-> 0, code |-> "", body |-> <<>>, contentDigest |-> <<>>,
     range |-> <<>>, uploadUUID |-> <<>>, received |-> <<>>]

\* os.Rename: fails when oldpath is absent, otherwise replaces newpath atomically.
Rename(f, old, new) ==
    IF old \notin DOMAIN f
    THEN [files |-> f, err |-> ENOENT]
    ELSE [files |-> [q \in (DOMAIN f \ {old}) \cup {new} |->
                        IF q = new THEN f[old] ELSE f[q]],
          err |-> NoErr]

----------------------------------------------------------------------------
(* SimpleFileStorage: paths *)

MetaSuffix == <<".meta.json">>
TrashDir == <<".trash">>

\* filepath.Join(dir, name): an empty element is ignored.
Join(dir, name) == IF name = <<>> THEN dir ELSE Append(dir, name)

\* artifactPath + ".meta.json": the suffix is appended to the last path element.
WithSuffix(path) ==
    IF path = <<>> THEN <<MetaSuffix>>
    ELSE [path EXCEPT ![Len(path)] = @ \o MetaSuffix]

getPaths(hash) ==
    LET dir == IF Len(hash) < 2 THEN <<>> ELSE <<SubSeq(hash, 1, 2)>>
        artifactPath ==
            IF Len(hash) < 2 THEN Join(<<>>, hash)
            ELSE Join(dir, SubSeq(hash, 3, Len(hash)))
    IN [dir |-> dir, artifactPath |-> artifactPath, metaPath |-> WithSuffix(artifactPath)]

getTrashPath(hash) ==
    LET dir == IF Len(hash) < 2 THEN <<TrashDir>> ELSE <<TrashDir, SubSeq(hash, 1, 2)>>
        artifactPath ==
            IF Len(hash) < 2 THEN Join(dir, hash)
            ELSE Join(dir, SubSeq(hash, 3, Len(hash)))
    IN [dir |-> dir, artifactPath |-> artifactPath, metaPath |-> WithSuffix(artifactPath)]

----------------------------------------------------------------------------
(* SimpleFileStorage: references *)

\* key := ref.Name + ":" + ref.Repo
refKey(ref) == ref.Name \o <<":">> \o ref.Repo

\* refMap[key]: the index in result of the first reference with that key, 0 if none.
refMapIndex(result, key) ==
    LET hits == {i \in 1..Len(result) : refKey(result[i]) = key}
    IN IF hits = {} THEN 0 ELSE CHOOSE i \in hits : \A j \in hits : i <= j

RECURSIVE mergeLoop(_, _)
mergeLoop(result, refs) ==
    IF refs = <<>> THEN result
    ELSE LET ref == Head(refs)
             idx == refMapIndex(result, refKey(ref))
             next ==
                 IF idx # 0
                 THEN IF ref.ReferencedTimestamp > result[idx].ReferencedTimestamp
                      THEN [result EXCEPT ![idx].ReferencedTimestamp = ref.ReferencedTimestamp]
                      ELSE result
                 ELSE Append(result, ref)
         IN mergeLoop(next, Tail(refs))

mergeReferences(existing, new) == mergeLoop(mergeLoop(<<>>, existing), new)

----------------------------------------------------------------------------
(* SimpleFileStorage: operations, as functions of the file system *)

\* meta.References of a *ArtifactMeta, none for nil.
MetaRefs(meta) == IF meta = <<>> THEN <<>> ELSE meta[1].References

Result(f, meta, err) ==
    [files |-> f, meta |-> meta, err |-> err, existingLength |-> 0, providedLength |-> 0]

GetMeta(f, hash) ==
    LET metaPath == getPaths(hash).metaPath
    IN IF metaPath \notin DOMAIN f THEN Result(f, <<>>, ENOENT)
       ELSE IF f[metaPath].json = <<>> THEN Result(f, <<>>, DecodeErr)
       ELSE Result(f, f[metaPath].json, NoErr)

moveToTrash(f, hash) ==
    LET src == getPaths(hash)
        dst == getTrashPath(hash)
        a == Rename(f, src.artifactPath, dst.artifactPath)
        m == Rename(a.files, src.metaPath, dst.metaPath)
    IN [files |-> m.files, err |-> NoErr]

\* Variant of the existing-blob branch of Create without the size check.
CreateExistingUnchecked(f, hash, size, meta) ==
    LET P == getPaths(hash)
        g == GetMeta(f, hash)
        existingMeta ==
            IF g.meta = <<>>
            THEN ArtifactMeta(hash, Len(f[P.artifactPath].bytes),
                              f[P.artifactPath].mtime, <<>>)
            ELSE g.meta[1]
        merged ==
            IF meta # <<>> /\ Len(meta[1].References) > 0
            THEN [existingMeta EXCEPT
                    !.References = mergeReferences(existingMeta.References,
                                                   meta[1].References)]
            ELSE existingMeta
    IN Result(WriteFile(f, P.metaPath, MetaFile(merged)), <<merged>>, NoErr)

CreateExisting(f, hash, size, meta) ==
    LET P == getPaths(hash)
        g == GetMeta(f, hash)
        existingMeta ==
            IF g.meta = <<>>
            THEN ArtifactMeta(hash, Len(f[P.artifactPath].bytes),
                              f[P.artifactPath].mtime, <<>>)
            ELSE g.meta[1]
        merged ==
            IF meta # <<>> /\ Len(meta[1].References) > 0
            THEN [existingMeta EXCEPT
                    !.References = mergeReferences(existingMeta.References,
                                                   meta[1].References)]
            ELSE existingMeta
    IN IF g.err # NoErr /\ g.err # ENOENT
       THEN Result(f, <<>>, "failed to read existing metadata")
       ELSE IF size # -1 /\ size # existingMeta.Length
       THEN [Result(f, <<>>, HashConflictError) EXCEPT
                !.existingLength = existingMeta.Length, !.providedLength = size]
       ELSE Result(WriteFile(f, P.metaPath, MetaFile(merged)), <<merged>>, NoErr)

\* Variant of the new-blob branch of Create that stores a blob one byte short.
CreateNewShort(f, hash, data, meta, now) ==
    LET P == getPaths(hash)
        stored == SubSeq(data, 1, Len(data) - 1)
        finalMeta == ArtifactMeta(hash, Len(stored), now, MetaRefs(meta))
        written == WriteFile(f, P.artifactPath, DataFile(stored, now))
    IN Result(WriteFile(written, P.metaPath, MetaFile(finalMeta)), <<finalMeta>>, NoErr)

CreateNew(f, hash, data, meta, now) ==
    LET P == getPaths(hash)
        fileSize == Len(data)
        finalMeta ==
            IF meta # <<>>
            THEN ArtifactMeta(hash, fileSize,
                              IF meta[1].CreatedTimestamp = 0
                              THEN now ELSE meta[1].CreatedTimestamp,
                              meta[1].References)
            ELSE ArtifactMeta(hash, fileSize, now, <<>>)
        written == WriteFile(f, P.artifactPath, DataFile(data, now))
    IN Result(WriteFile(written, P.metaPath, MetaFile(finalMeta)), <<finalMeta>>, NoErr)

\* The new-blob branch of Create when the reader returns an error after it has
\* delivered data: io.Copy has written data to the blob file, no meta is written.
CreateTorn(f, hash, data, now) ==
    Result(WriteFile(f, getPaths(hash).artifactPath, DataFile(data, now)), <<>>, WriteFailed)

\* now: the clock when the call runs (the modification time a new file gets).
\* readErr: the reader ends with an error instead of EOF.
SimpleFileStorage_Create(f, hash, data, readErr, size, meta, now) ==
    IF getPaths(hash).artifactPath \in DOMAIN f
    THEN CreateExisting(f, hash, size, meta)
    ELSE IF readErr THEN CreateTorn(f, hash, data, now)
    ELSE CreateNew(f, hash, data, meta, now)

\* The bytes of the returned stream, and the actual range.
SimpleFileStorage_Read(f, hash, reqOffset, reqLength) ==
    LET artifactPath == getPaths(hash).artifactPath
    IN IF artifactPath \notin DOMAIN f
       THEN [data |-> <<>>, offset |-> 0, length |-> 0, err |-> ENOENT]
       ELSE LET bytes == f[artifactPath].bytes
                fileSize == Len(bytes)
                offset == IF reqOffset < 0 THEN 0 ELSE reqOffset
                l1 == IF reqLength = -1 \/ offset + reqLength > fileSize
                      THEN fileSize - offset ELSE reqLength
                length == IF l1 < 0 THEN 0 ELSE l1
            IN [data |-> SubSeq(bytes, offset + 1, offset + length),
                offset |-> offset, length |-> length, err |-> NoErr]

\* Delete, once its GetMeta(hash) has returned g: the rest of the method runs on the
\* file system f.
DeleteAfterRead(f, hash, ref, g) ==
    LET P == getPaths(hash)
    IN IF g.err = ENOENT
       THEN IF P.artifactPath \notin DOMAIN f
            THEN Result(f, <<>>, ArtifactMissing)
            ELSE Result(moveToTrash(f, hash).files, <<>>, NoErr)
       ELSE IF g.err # NoErr
       THEN Result(f, <<>>, "failed to read metadata")
       ELSE LET existingMeta == g.meta[1]
                matches(r) == r.Name = ref.Name /\ r.Repo = ref.Repo
                found == \E i \in 1..Len(existingMeta.References) :
                            matches(existingMeta.References[i])
                newReferences == SelectSeq(existingMeta.References, LAMBDA r : ~matches(r))
                updated == [existingMeta EXCEPT !.References = newReferences]
            IN IF ~found THEN Result(f, <<>>, ReferenceNotFound)
               ELSE IF Len(newReferences) = 0
               THEN Result(moveToTrash(f, hash).files, <<>>, NoErr)
               ELSE Result(WriteFile(f, P.metaPath, MetaFile(updated)), <<updated>>, NoErr)

SimpleFileStorage_Delete(f, hash, ref) == DeleteAfterRead(f, hash, ref, GetMeta(f, hash))

SimpleFileStorage_UpdateMeta(f, meta) ==
    Result(WriteFile(f, getPaths(meta.Hash).metaPath, MetaFile(meta)), <<meta>>, NoErr)

SimpleFileStorage_Move(f, srcHash, destHash) ==
    LET src == getPaths(srcHash)
        dst == getPaths(destHash)
        a == Rename(f, src.artifactPath, dst.artifactPath)
        m == Rename(a.files, src.metaPath, dst.metaPath)
    IN IF a.err # NoErr THEN [files |-> f, err |-> "failed to move artifact"]
       ELSE [files |-> m.files, err |-> NoErr]

----------------------------------------------------------------------------
(* ConcurrentArtifactStorage: the lock *)

LockSuffix == <<".lock">>

GetLockPath(hash) ==
    IF Len(hash) < 2 THEN <<hash \o LockSuffix>>
    ELSE <<SubSeq(hash, 1, 2), SubSeq(hash, 3, Len(hash)) \o LockSuffix>>

\* fileLock.TryLockContext: the flock is exclusive, one attempt succeeds only when
\* nobody holds a lock on the lock file.
\* Variant of the lock attempt that never finds the lock taken.
TryLockShared(held, lockPath) == TRUE

TryLock(held, lockPath) == \A l \in held : l[1] # lockPath

----------------------------------------------------------------------------
(* HashComputingArtifactStorage: helpers *)

ToUpper(c) ==
    CASE c = "u" -> "U" [] c = "n" -> "N" [] c = "k" -> "K"
      [] c = "o" -> "O" [] c = "w" -> "W" [] OTHER -> c

\* strings.EqualFold(a, b)
EqualFold(a, b) ==
    /\ Len(a) = Len(b)
    /\ \A i \in 1..Len(a) : ToUpper(a[i]) = ToUpper(b[i])

isUnknownHash(hash) ==
    IF Len(hash) < 3 THEN TRUE
    ELSE EqualFold(hash, <<"U", "N", "K", "N", "O", "W", "N">>)

\* uuid.New(): the uuid-th value drawn, never drawn twice; "temp-" + id.String()
UuidString == <<"uuid-1", "uuid-2", "uuid-3", "uuid-4", "uuid-5", "uuid-6">>
generateTempHash(uuid) == <<"t", "e", "mp-", UuidString[uuid]>>

\* hex.EncodeToString(sha256(data)): injective on the blobs of the model, at least
\* three characters long, and never a temp hash.
HexByte == <<"00", "01">>
Sha256Hex(data) == <<"5", "f", "..">> \o [i \in 1..Len(data) |-> HexByte[data[i] + 1]]

cleanupRef(ts) == ArtifactReference(<<"temp-cleanup">>, <<"temp-cleanup">>, ts)

----------------------------------------------------------------------------
(* The callers.  A call through HashComputing(Concurrent(Simple)) is a sequence  *)
(* of steps: a lock-free read of the wrapped storage is one step; a locked call  *)
(* of the wrapped storage is three (acquireLock, the SimpleFileStorage method    *)
(* executed while the lock is held, Unlock).                                      *)

NoRes == [meta |-> <<>>, err |-> NoErr, existingLength |-> 0, providedLength |-> 0]

Res(r) == [meta |-> r.meta, err |-> r.err,
           existingLength |-> r.existingLength, providedLength |-> r.providedLength]

IdleCall ==
    [op |-> "none", hash |-> <<>>, data |-> <<>>, readErr |-> FALSE, size |-> 0,
     meta |-> <<>>,
     ref |-> <<>>, offset |-> 0, length |-> 0, now |-> 0, uuid |-> 0,
     phase |-> "", tempHash |-> <<>>, tempMeta |-> <<>>, computedHash |-> <<>>,
     cleanupMeta |-> <<>>, ctx |-> "", res |-> NoRes,
     out |-> <<>>, err |-> NoErr, read |-> <<>>, existingLength |-> 0,
     providedLength |-> 0,
     existed |-> FALSE,      \* history: the blob file was there when Create ran
     moved |-> FALSE,        \* history: this call's Move(temp, final) returned nil
     timedOut |-> FALSE]     \* history: a lock acquisition of this call timed out

\* Positions at which the caller is in a locked call of the wrapped storage.
Locked == {"create", "delete", "updatemeta", "temp_create", "cleanup_updatemeta",
           "cleanup_delete", "existing_create", "move", "final_updatemeta"}

\* Positions at which the caller reads the wrapped storage without a lock.
LockFree == {"read", "getmeta", "check_existing", "cleanup_getmeta",
             "existing_getmeta", "move_check", "final_getmeta"}

\* The hash whose lock the locked call at position l takes.
LockHash(l, c) ==
    CASE l \in {"create", "delete"} -> c.hash
      [] l = "updatemeta" -> c.meta[1].Hash
      [] l \in {"temp_create", "cleanup_updatemeta", "cleanup_delete"} -> c.tempHash
      [] l \in {"existing_create", "move", "final_updatemeta"} -> c.computedHash

\* handleExistingHash: mergeSize
mergeSize(c, existingMeta) ==
    IF c.tempMeta # <<>> THEN c.tempMeta[1].Length ELSE existingMeta.Length

\* The SimpleFileStorage method the locked call at position l executes.
InnerCall(l, c, f) ==
    CASE l = "create" ->
            SimpleFileStorage_Create(f, c.hash, c.data, c.readErr, c.size, c.meta, c.now)
      [] l = "delete" -> SimpleFileStorage_Delete(f, c.hash, c.ref[1])
      [] l = "updatemeta" -> SimpleFileStorage_UpdateMeta(f, c.meta[1])
      [] l = "temp_create" ->
            SimpleFileStorage_Create(f, c.tempHash, c.data, c.readErr, c.size, c.meta,
                                     c.now)
      [] l = "cleanup_updatemeta" -> SimpleFileStorage_UpdateMeta(f, c.cleanupMeta[1])
      [] l = "cleanup_delete" ->
            SimpleFileStorage_Delete(f, c.tempHash, cleanupRef(0))
      [] l = "existing_create" ->
            SimpleFileStorage_Create(f, c.computedHash, <<>>, FALSE,
                                     mergeSize(c, c.res.meta[1]), c.meta, c.now)
      [] l = "move" ->
            LET m == SimpleFileStorage_Move(f, c.tempHash, c.computedHash)
            IN Result(m.files, <<>>, m.err)
      [] l = "final_updatemeta" -> SimpleFileStorage_UpdateMeta(f, c.tempMeta[1])

Return(c, meta, err) ==
    [pc |-> "done", call |-> [c EXCEPT !.out = meta, !.err = err, !.phase = ""]]

ReturnRes(c, r) ==
    [pc |-> "done",
     call |-> [c EXCEPT !.out = r.meta, !.err = r.err, !.phase = "",
                        !.existingLength = r.existingLength,
                        !.providedLength = r.providedLength]]

Goto(l, c) ==
    [pc |-> l, call |-> [c EXCEPT !.phase = IF l \in Locked THEN "lock" ELSE ""]]

\* cleanupTempHash has returned: back in handleExistingHash (ctx "existing") or in
\* the failure branch of moveToFinalHash (ctx "movefailed").
AfterCleanup(c) ==
    IF c.ctx = "existing" THEN Goto("existing_getmeta", c)
    ELSE Return(c, <<>>, MoveFailed)

\* Variant of moveToFinalHash that leaves tempMeta.Hash as it is.
AfterMoveKeepHash(c, r) ==
    IF r.err # NoErr THEN Goto("move_check", c)
    ELSE Goto("final_updatemeta", [c EXCEPT !.moved = TRUE])

\* moveToFinalHash, once Move has returned r: on success tempMeta.Hash = computedHash
\* and UpdateMeta(*tempMeta) follows (Create always hands a non-nil tempMeta over).
AfterMove(c, r) ==
    IF r.err # NoErr THEN Goto("move_check", c)
    ELSE Goto("final_updatemeta",
              [c EXCEPT !.moved = TRUE,
                        !.tempMeta = <<[c.tempMeta[1] EXCEPT !.Hash = c.computedHash]>>])

\* Where the caller goes when the wrapped call at position l has returned r.
After(l, c, r) ==
    CASE l \in {"create", "delete", "updatemeta", "existing_create"} -> ReturnRes(c, r)
      [] l = "temp_create" ->
            IF r.err # NoErr THEN Return(c, <<>>, TempCreateFailed)
            ELSE Goto("check_existing",
                      [c EXCEPT !.tempMeta = r.meta,
                                !.computedHash = Sha256Hex(c.data)])
      [] l = "check_existing" ->
            IF r.err = NoErr /\ r.meta # <<>>
            THEN Goto("cleanup_getmeta", [c EXCEPT !.ctx = "existing"])
            ELSE Goto("move", c)
      [] l = "move" -> AfterMove(c, r)
      [] l = "move_check" ->
            IF r.err = NoErr /\ r.meta # <<>>
            THEN Goto("cleanup_getmeta", [c EXCEPT !.ctx = "existing"])
            ELSE Goto("cleanup_getmeta", [c EXCEPT !.ctx = "movefailed"])
      [] l = "cleanup_getmeta" ->
            IF r.err # NoErr THEN AfterCleanup(c)
            ELSE IF Len(r.meta[1].References) = 0
            THEN Goto("cleanup_updatemeta",
                      [c EXCEPT !.cleanupMeta =
                          <<[r.meta[1] EXCEPT !.References = <<cleanupRef(c.now)>>]>>])
            ELSE Goto("cleanup_delete", c)
      [] l = "cleanup_updatemeta" ->
            IF r.err # NoErr THEN AfterCleanup(c) ELSE Goto("cleanup_delete", c)
      [] l = "cleanup_delete" -> AfterCleanup(c)
      [] l = "existing_getmeta" ->
            IF r.err # NoErr THEN Return(c, <<>>, ExistingMetaFailed)
            ELSE IF c.meta # <<>> /\ Len(c.meta[1].References) > 0
            THEN Goto("existing_create", [c EXCEPT !.res = Res(r)])
            ELSE Return(c, r.meta, NoErr)
      [] l = "final_updatemeta" ->
            IF r.err # NoErr THEN Goto("final_getmeta", c) ELSE Return(c, r.meta, NoErr)
      [] l \in {"getmeta", "final_getmeta"} -> Return(c, r.meta, r.err)

----------------------------------------------------------------------------
(* What the callers pass *)

KnownHashes == {Sha256Hex(<<0>>)}
UnknownHashes == {<<>>, <<"a", "b">>, <<"u", "N", "k", "n", "o", "w", "n">>}

\* (name, repo) pairs; the second and the third differ in both fields.
RefKeys ==
    {<<<<"lib">>, <<"test">>>>,
     <<<<"lib">>, <<"docker", ":", "test">>>>,
     <<<<"lib", ":", "docker">>, <<"test">>>>}

Refs == {ArtifactReference(k[1], k[2], t) : k \in RefKeys, t \in Times}
RefLists == UNION {[1..n -> Refs] : n \in 0..MaxRefs}

\* The meta passed to Create(hash, r, size, meta): nil, or one naming the hash and
\* the size, with CreatedTimestamp left zero.
CreateMetas(hash, size) ==
    {<<>>} \cup {<<ArtifactMeta(hash, size, 0, refs)>> : refs \in RefLists}

CreateCalls(hashes) ==
    UNION {{[IdleCall EXCEPT !.op = "Create", !.hash = h, !.data = d, !.readErr = e,
                             !.size = s, !.meta = m] :
                d \in Data, e \in BOOLEAN, m \in CreateMetas(h, s)} :
              h \in hashes, s \in Sizes}

DeleteCalls ==
    {[IdleCall EXCEPT !.op = "Delete", !.hash = h,
                      !.ref = <<ArtifactReference(k[1], k[2], 0)>>] :
        h \in KnownHashes, k \in RefKeys}

UpdateMetaCalls ==
    {[IdleCall EXCEPT !.op = "UpdateMeta", !.meta = <<ArtifactMeta(h, n, MaxTime, refs)>>] :
        h \in KnownHashes, n \in 0..MaxLen, refs \in RefLists}

ReadCalls ==
    {[IdleCall EXCEPT !.op = "Read", !.hash = h, !.offset = o, !.length = n] :
        h \in KnownHashes, o \in 0..MaxLen, n \in Sizes}

GetMetaCalls == {[IdleCall EXCEPT !.op = "GetMeta", !.hash = h] : h \in KnownHashes}

----------------------------------------------------------------------------
(* Steps *)

Init ==
    /\ files = NoFiles
    /\ locks = {}
    /\ pc = [p \in Procs |-> "idle"]
    /\ call = [p \in Procs |-> IdleCall]
    /\ nops = 0
    /\ trashed = {}
    /\ given = {}
    /\ uploadSessions = NoSessions
    /\ http = NoRequest
    /\ stream = NoStream
    /\ mgr = NoManagers

\* HashComputingArtifactStorage.Create: a known hash is delegated, an unknown one is
\* first stored under a temp hash.
CreateEntry(c) ==
    IF isUnknownHash(c.hash)
    THEN Goto("temp_create", [c EXCEPT !.tempHash = generateTempHash(c.uuid)])
    ELSE Goto("create", c)

Entry(c) ==
    CASE c.op = "Create" -> CreateEntry(c)
      [] c.op = "Delete" -> Goto("delete", c)
      [] c.op = "UpdateMeta" -> Goto("updatemeta", c)
      [] c.op = "Read" -> Goto("read", c)
      [] c.op = "GetMeta" -> Goto("getmeta", c)
      [] c.op = "Update" -> Goto("update", c)

\* Caller p makes call c: the call gets the next clock value and the next uuid.
Begin(p, c) ==
    LET e == Entry([c EXCEPT !.now = nops + 1, !.uuid = nops + 1])
    IN /\ pc' = [pc EXCEPT ![p] = e.pc]
       /\ call' = [call EXCEPT ![p] = e.call]
       /\ nops' = nops + 1
       /\ UNCHANGED <<files, locks, trashed, given, uploadSessions, http, stream, mgr>>

\* acquireLock: TryLockContext gets the lock.
Acquire(p) ==
    LET lockPath == GetLockPath(LockHash(pc[p], call[p]))
    IN /\ pc[p] \in Locked
       /\ call[p].phase = "lock"
       /\ TryLock(locks, lockPath)
       /\ locks' = locks \cup {<<lockPath, p>>}
       /\ call' = [call EXCEPT ![p].phase = "inner"]
       /\ UNCHANGED <<files, pc, nops, trashed, given, uploadSessions, http, stream, mgr>>

\* Variant of the timeout after which the call goes on into the wrapped storage.
TimeoutThenRun(p) ==
    /\ pc[p] \in Locked
    /\ call[p].phase = "lock"
    /\ ~TryLock(locks, GetLockPath(LockHash(pc[p], call[p])))
    /\ call' = [call EXCEPT ![p].phase = "inner", ![p].timedOut = TRUE]
    /\ UNCHANGED <<files, locks, pc, nops, trashed, given, uploadSessions, http, stream, mgr>>

\* acquireLock: the deadline passes while another caller holds the lock.
Timeout(p) ==
    LET lockPath == GetLockPath(LockHash(pc[p], call[p]))
        a == After(pc[p], call[p], Result(files, <<>>, LockTimeout))
    IN /\ pc[p] \in Locked
       /\ call[p].phase = "lock"
       /\ ~TryLock(locks, lockPath)
       /\ pc' = [pc EXCEPT ![p] = a.pc]
       /\ call' = [call EXCEPT ![p] = [a.call EXCEPT !.timedOut = TRUE]]
       /\ UNCHANGED <<files, locks, nops, trashed, given, uploadSessions, http, stream, mgr>>

\* History of the trash: a Delete that removed the last reference adds the hash, a
\* Create or a Move that stores the hash removes it.
TrashedAfter(l, c, r) ==
    LET h == LockHash(l, c)
    IN IF r.err # NoErr THEN trashed
       ELSE IF l \in {"delete", "cleanup_delete"}
       THEN IF /\ r.meta = <<>>
               /\ GetMeta(files, h).err = NoErr
               /\ getPaths(h).artifactPath \in DOMAIN files
            THEN trashed \cup {h} ELSE trashed
       ELSE IF l \in {"create", "temp_create", "existing_create", "move"}
       THEN trashed \ {h}
       ELSE trashed

\* History of the references: <<hash, name, repo>> for each reference of the list.
Triples(hash, refs) == {<<hash, refs[i].Name, refs[i].Repo>> : i \in 1..Len(refs)}

\* A Create gives its references to the hash (a Create that stores the blob starts
\* the hash afresh), a Delete gives one back (all of them when the hash is trashed),
\* an UpdateMeta replaces them, a Move carries those of the source to the destination.
GivenAfter(l, c, r) ==
    LET h == LockHash(l, c)
        others == {t \in given : t[1] # h}
        blobThere == getPaths(h).artifactPath \in DOMAIN files
    IN IF r.err # NoErr THEN given
       ELSE CASE l \in {"create", "temp_create", "existing_create"} ->
                    (IF blobThere THEN given ELSE others)
                        \cup Triples(h, MetaRefs(c.meta))
              [] l \in {"delete", "cleanup_delete"} ->
                    IF r.meta = <<>> THEN others
                    ELSE given \ Triples(h, IF l = "delete" THEN c.ref
                                            ELSE <<cleanupRef(0)>>)
              [] l = "updatemeta" -> others \cup Triples(h, MetaRefs(c.meta))
              [] l = "cleanup_updatemeta" -> others \cup Triples(h, MetaRefs(c.cleanupMeta))
              [] l = "final_updatemeta" -> others \cup Triples(h, MetaRefs(c.tempMeta))
              [] l = "move" ->
                    {t \in others : t[1] # c.tempHash}
                        \cup {<<h, t[2], t[3]>> : t \in {u \in given : u[1] = c.tempHash}}

\* The SimpleFileStorage method runs while the lock is held.
Inner(p) ==
    LET l == pc[p]
        c == call[p]
        r == InnerCall(l, c, files)
    IN /\ l \in Locked
       /\ c.phase = "inner"
       /\ files' = r.files
       /\ call' = [call EXCEPT ![p] =
                     [c EXCEPT !.phase = "unlock", !.res = Res(r),
                               !.existed = getPaths(LockHash(l, c)).artifactPath
                                              \in DOMAIN files]]
       /\ trashed' = TrashedAfter(l, c, r)
       /\ given' = GivenAfter(l, c, r)
       /\ UNCHANGED <<locks, pc, nops, uploadSessions, http, stream, mgr>>

\* defer fileLock.Unlock(), and the caller goes on with what the call returned.
Unlock(p) ==
    LET lockPath == GetLockPath(LockHash(pc[p], call[p]))
        a == After(pc[p], call[p], call[p].res)
    IN /\ pc[p] \in Locked
       /\ call[p].phase = "unlock"
       /\ locks' = locks \ {<<lockPath, p>>}
       /\ pc' = [pc EXCEPT ![p] = a.pc]
       /\ call' = [call EXCEPT ![p] = a.call]
       /\ UNCHANGED <<files, nops, trashed, given, uploadSessions, http, stream, mgr>>

\* The hash a lock-free GetMeta at position l reads.
ObservedHash(l, c) ==
    CASE l = "getmeta" -> c.hash
      [] l = "cleanup_getmeta" -> c.tempHash
      [] OTHER -> c.computedHash

\* Variant of the lock-free read that waits until nobody holds the lock of the hash.
ObserveUnlocked(p) ==
    LET l == pc[p]
        c == call[p]
        h == IF l = "read" THEN c.hash ELSE ObservedHash(l, c)
        rd == SimpleFileStorage_Read(files, c.hash, c.offset, c.length)
        a == IF l = "read"
             THEN Return([c EXCEPT !.read = rd.data], <<>>, rd.err)
             ELSE After(l, c, GetMeta(files, h))
    IN /\ l \in LockFree
       /\ TryLock(locks, GetLockPath(h))
       /\ pc' = [pc EXCEPT ![p] = a.pc]
       /\ call' = [call EXCEPT ![p] = a.call]
       /\ UNCHANGED <<files, locks, nops, trashed, given, uploadSessions, http, stream, mgr>>

\* Read and GetMeta go to SimpleFileStorage without a lock.
Observe(p) ==
    LET l == pc[p]
        c == call[p]
        rd == SimpleFileStorage_Read(files, c.hash, c.offset, c.length)
        a == IF l = "read"
             THEN Return([c EXCEPT !.read = rd.data], <<>>, rd.err)
             ELSE After(l, c, GetMeta(files, ObservedHash(l, c)))
    IN /\ l \in LockFree
       /\ pc' = [pc EXCEPT ![p] = a.pc]
       /\ call' = [call EXCEPT ![p] = a.call]
       /\ UNCHANGED <<files, locks, nops, trashed, given, uploadSessions, http, stream, mgr>>

----------------------------------------------------------------------------
(* One client calling the storage with resolved hashes, one call after the other *)

Client == CHOOSE p \in Procs : \A q \in Procs : p <= q

SeqBegin ==
    /\ pc[Client] \in {"idle", "done"}
    /\ nops < MaxOps
    /\ \E c \in CreateCalls(KnownHashes) \cup DeleteCalls \cup UpdateMetaCalls
                  \cup ReadCalls \cup GetMetaCalls : Begin(Client, c)

Next ==
    \/ SeqBegin
    \/ Acquire(Client)
    \/ Inner(Client)
    \/ Unlock(Client)
    \/ Observe(Client)

Spec == Init /\ [][Next]_vars

----------------------------------------------------------------------------
(* One client that also creates with unresolved hashes *)

HashBegin ==
    /\ pc[Client] \in {"idle", "done"}
    /\ nops < MaxHashOps
    /\ \E c \in CreateCalls(UnknownHashes) \cup CreateCalls(KnownHashes)
                  \cup DeleteCalls \cup UpdateMetaCalls : Begin(Client, c)

HashNext ==
    \/ HashBegin
    \/ Acquire(Client)
    \/ Inner(Client)
    \/ Unlock(Client)
    \/ Observe(Client)

SpecHash == Init /\ [][HashNext]_vars

----------------------------------------------------------------------------
(* Concurrent callers on an empty store, one call each, all storing the same blob *)

ConcData == <<0>>

ConcCalls ==
    {c \in CreateCalls(KnownHashes \cup {<<>>}) :
        c.data = ConcData /\ ~c.readErr /\ c.size \in {-1, Len(ConcData)}}
    \cup DeleteCalls \cup UpdateMetaCalls \cup ReadCalls \cup GetMetaCalls

ConcBegin(p) ==
    /\ pc[p] = "idle"
    /\ \E c \in ConcCalls : Begin(p, c)

ConcNext ==
    \E p \in Procs :
        \/ ConcBegin(p)
        \/ Acquire(p)
        \/ Timeout(p)
        \/ Inner(p)
        \/ Unlock(p)
        \/ Observe(p)

SpecConc == Init /\ [][ConcNext]_vars

----------------------------------------------------------------------------
(* Properties of SimpleFileStorage, for the sequential client (Spec) *)

\* The (name, repo) pairs of a reference list.
RefPairs(refs) == {<<refs[i].Name, refs[i].Repo>> : i \in 1..Len(refs)}

\* The largest timestamp the list holds for the pair, 0 if it holds none.
MaxStamp(refs, pair) ==
    LET ts == {refs[i].ReferencedTimestamp :
                  i \in {j \in 1..Len(refs) : <<refs[j].Name, refs[j].Repo>> = pair}}
    IN IF ts = {} THEN 0 ELSE CHOOSE t \in ts : \A u \in ts : u <= t

\* What Read(hash, 0, -1) and GetMeta(hash) return in the current state.
ReadAll(hash) == SimpleFileStorage_Read(files, hash, 0, -1)
Stored(hash) == GetMeta(files, hash)
Live(hash) == getPaths(hash).artifactPath \in DOMAIN files

\* The client has just got the result of a Create(H, data, len(data), meta) on a
\* resolved hash.
CreateReturned ==
    /\ pc[Client] = "done"
    /\ call[Client].op = "Create"
    /\ ~isUnknownHash(call[Client].hash)
    /\ call[Client].size = Len(call[Client].data)

\* The step in which SimpleFileStorage executes the client's call at position l.
Runs(l) ==
    /\ pc[Client] = l
    /\ call[Client].phase = "inner"
    /\ call'[Client].phase = "unlock"

\* C1, as stated: whenever Create(H, data, len(data), meta) on a resolved hash has
\* returned successfully, Read(H, 0, -1) yields exactly data and GetMeta(H).length
\* equals len(data).
C1_RoundTrip_AsStated ==
    (CreateReturned /\ call[Client].err = NoErr) =>
        /\ ReadAll(call[Client].hash).err = NoErr
        /\ ReadAll(call[Client].hash).data = call[Client].data
        /\ Stored(call[Client].hash).err = NoErr
        /\ Stored(call[Client].hash).meta[1].Length = Len(call[Client].data)

\* C1, amended: whenever Create(H, data, len(data), meta) on a resolved hash has
\* returned successfully, GetMeta(H).length equals len(data), and Read(H, 0, -1)
\* yields exactly data provided no blob file was stored at H when the Create ran
\* (a Create on a stored H keeps the stored bytes and does not read data).
C1_RoundTrip ==
    (CreateReturned /\ call[Client].err = NoErr) =>
        /\ ReadAll(call[Client].hash).err = NoErr
        /\ ~call[Client].existed =>
              ReadAll(call[Client].hash).data = call[Client].data
        /\ Stored(call[Client].hash).err = NoErr
        /\ Stored(call[Client].hash).meta[1].Length = Len(call[Client].data)

C1_Witness ==
    /\ CreateReturned
    /\ call[Client].err = NoErr
    /\ ~call[Client].existed
    /\ Len(call[Client].data) > 0
    /\ ReadAll(call[Client].hash).data = call[Client].data

\* C2, as stated: a Create(H, data, len(data), meta) repeated on a stored H of that
\* length succeeds and yields a meta with the same hash and the same length, whose
\* references are the union, under (name, repo) equality, of the stored ones and
\* the supplied ones, each pair carrying the largest timestamp supplied for it.
C2_IdempotentCreate ==
    [][LET c == call[Client]
           old == Stored(c.hash)
           r == call'[Client].res
           supplied == MetaRefs(c.meta)
       IN (/\ Runs("create")
           /\ Live(c.hash)
           /\ old.err = NoErr
           /\ c.size = Len(c.data)
           /\ old.meta[1].Length = c.size)
          => /\ r.err = NoErr
             /\ r.meta[1].Hash = old.meta[1].Hash
             /\ r.meta[1].Length = old.meta[1].Length
             /\ GetMeta(files', c.hash).meta = r.meta
             /\ RefPairs(r.meta[1].References)
                   = RefPairs(old.meta[1].References) \cup RefPairs(supplied)
             /\ \A k \in RefPairs(r.meta[1].References) :
                   /\ MaxStamp(r.meta[1].References, k) >= MaxStamp(old.meta[1].References, k)
                   /\ MaxStamp(r.meta[1].References, k) >= MaxStamp(supplied, k)
      ]_vars

\* C3: when H is stored and the store records length len1 for it, a Create on H
\* with a size len2 >= 0 different from len1 fails with HashConflictError carrying
\* (existing len1, provided len2), and no file changes: the blob bytes and the meta
\* stored at H stay as they were.
C3_HashConflict ==
    [][LET c == call[Client]
           old == Stored(c.hash)
           r == call'[Client].res
       IN (/\ Runs("create")
           /\ Live(c.hash)
           /\ old.err = NoErr
           /\ c.size >= 0
           /\ c.size # old.meta[1].Length)
          => /\ r.err = HashConflictError
             /\ r.meta = <<>>
             /\ r.existingLength = old.meta[1].Length
             /\ r.providedLength = c.size
             /\ files' = files
      ]_vars

C3_Witness ==
    /\ pc[Client] = "done"
    /\ call[Client].op = "Create"
    /\ call[Client].err = HashConflictError
    /\ call[Client].existed
    /\ call[Client].size >= 0
    /\ call[Client].existingLength # call[Client].providedLength
    /\ call[Client].providedLength = call[Client].size
    /\ Len(ReadAll(call[Client].hash).data) # call[Client].size

\* The references the callers hold on the hash.
Held(hash) == {<<t[2], t[3]>> : t \in {u \in given : u[1] = hash}}

InTrash(hash) ==
    /\ getTrashPath(hash).artifactPath \in DOMAIN files
    /\ getTrashPath(hash).metaPath \in DOMAIN files
    /\ ~Live(hash)
    /\ getPaths(hash).metaPath \notin DOMAIN files

\* C4, as stated: when the references given to a stored H by Creates are N distinct
\* ones, a matching Delete that leaves some of them returns a non-nil meta holding
\* exactly the remaining ones and leaves the blob live, and the Delete of the last
\* one returns nil and moves blob and meta to the trash.
C4_ReferenceCount ==
    [][LET c == call[Client]
           pair == <<c.ref[1].Name, c.ref[1].Repo>>
           remaining == Held(c.hash) \ {pair}
           r == call'[Client].res
       IN (/\ Runs("delete")
           /\ Live(c.hash)
           /\ pair \in Held(c.hash))
          => /\ r.err = NoErr
             /\ IF remaining = {}
                THEN r.meta = <<>> /\ InTrash(c.hash)'
                ELSE /\ r.meta # <<>>
                     /\ RefPairs(r.meta[1].References) = remaining
                     /\ Live(c.hash)'
      ]_vars

\* C5, as stated: a hash whose last reference a Delete has removed (the Delete
\* returned nil) is not found by Read nor by GetMeta until it is created again.
C5_TrashedInvisible ==
    \A h \in trashed :
        /\ Stored(h).err = ENOENT
        /\ ReadAll(h).err = ENOENT

----------------------------------------------------------------------------
(* Properties of ConcurrentArtifactStorage, for the concurrent callers (SpecConc) *)

\* Caller p is inside the wrapped storage, between acquireLock and Unlock.
Inside(p) == pc[p] \in Locked /\ call[p].phase \in {"inner", "unlock"}

\* C6: for each hash H, no two callers are at the same time inside the wrapped
\* storage in a Create, Delete, UpdateMeta or Move-into-H that takes the lock of H;
\* and whoever is inside holds the lock of the hash.
C6_PerHashSerialisation ==
    \A p \in Procs :
        Inside(p) =>
            /\ <<GetLockPath(LockHash(pc[p], call[p])), p>> \in locks
            /\ \A q \in Procs \ {p} :
                  Inside(q) => LockHash(pc[q], call[q]) # LockHash(pc[p], call[p])

C6_Witness ==
    \E p \in Procs : \E q \in Procs \ {p} :
        /\ Inside(p)
        /\ pc[p] = "move"
        /\ pc[q] \in Locked
        /\ call[q].phase = "lock"
        /\ LockHash(pc[q], call[q]) = LockHash(pc[p], call[p])

\* Every caller has returned from a successful Create, none having waited for a
\* lock beyond the timeout.
AllCreated ==
    \A p \in Procs :
        /\ pc[p] = "done"
        /\ call[p].op = "Create"
        /\ call[p].err = NoErr
        /\ ~call[p].timedOut

SuppliedPairs(p) == RefPairs(MetaRefs(call[p].meta))

AllSupplied == UNION {SuppliedPairs(p) : p \in Procs}

\* C7, as stated: when the callers have all returned from Creates of the same
\* resolved H with the same length and pairwise distinct references, the references
\* of GetMeta(H) are the union of the supplied ones and its length is the common one.
C7_ConcurrentCreates ==
    (/\ AllCreated
     /\ \A p \in Procs :
           /\ call[p].hash \in KnownHashes
           /\ call[p].hash = call[1].hash
           /\ call[p].size = Len(call[p].data)
           /\ SuppliedPairs(p) # {}
     /\ \A p \in Procs : \A q \in Procs \ {p} : SuppliedPairs(p) \cap SuppliedPairs(q) = {})
    => /\ Stored(call[1].hash).err = NoErr
       /\ RefPairs(Stored(call[1].hash).meta[1].References) = AllSupplied
       /\ Stored(call[1].hash).meta[1].Length = Len(call[1].data)

----------------------------------------------------------------------------
(* Properties of HashComputingArtifactStorage *)

\* Every caller has returned from a successful Create with an unresolved hash, all
\* with the same data.
AllPromoted ==
    /\ AllCreated
    /\ \A p \in Procs : isUnknownHash(call[p].hash) /\ call[p].data = call[1].data

Final == Sha256Hex(call[1].data)

\* C8, as stated: of the callers that created the same data with an unresolved hash,
\* exactly one moved its temp blob to F; every other one has its temp artifact out
\* of the store and its references in the meta of F.
C8_SinglePromotion ==
    AllPromoted =>
        /\ Cardinality({p \in Procs : call[p].moved}) = 1
        /\ \A p \in Procs :
              ~call[p].moved =>
                  /\ ~Live(call[p].tempHash)
                  /\ Stored(Final).err = NoErr
                  /\ SuppliedPairs(p) \subseteq RefPairs(Stored(Final).meta[1].References)

\* C9, as stated: the callers that created the same data with an unresolved hash
\* all got the final hash F back, and the references of GetMeta(F) are the union of
\* the references they supplied.
C9_ReferenceUnion ==
    AllPromoted =>
        /\ \A p \in Procs : call[p].out # <<>> /\ call[p].out[1].Hash = Final
        /\ Stored(Final).err = NoErr
        /\ RefPairs(Stored(Final).meta[1].References) = AllSupplied

\* C10: when a Create with an unresolved hash (empty, shorter than three
\* characters, or "UNKNOWN" in any case) and content data has returned successfully
\* to the sequential client, the meta it returned has hash hex(sha256(data)), and
\* GetMeta(hex(sha256(data))) succeeds with a meta whose hash is hex(sha256(data)).
C10_DigestPromotion ==
    (/\ pc[Client] = "done"
     /\ call[Client].op = "Create"
     /\ isUnknownHash(call[Client].hash)
     /\ call[Client].err = NoErr)
    => /\ call[Client].out # <<>>
       /\ call[Client].out[1].Hash = Sha256Hex(call[Client].data)
       /\ Stored(Sha256Hex(call[Client].data)).err = NoErr
       /\ Stored(Sha256Hex(call[Client].data)).meta[1].Hash = Sha256Hex(call[Client].data)

C10_Witness ==
    /\ pc[Client] = "done"
    /\ call[Client].op = "Create"
    /\ call[Client].hash = <<"u", "N", "k", "n", "o", "w", "n">>
    /\ call[Client].err = NoErr
    /\ call[Client].moved
    /\ Len(call[Client].data) > 0
    /\ ReadAll(Sha256Hex(call[Client].data)).data = call[Client].data

\* The client's Create with an unresolved hash has returned, having found the
\* digest of its data already stored.
FoundStored ==
    /\ pc[Client] = "done"
    /\ call[Client].op = "Create"
    /\ isUnknownHash(call[Client].hash)
    /\ call[Client].ctx = "existing"
    /\ Live(call[Client].computedHash)

\* C11, as stated: when a Create with an unresolved hash has found the digest F of
\* its data already stored, then once it has returned, neither the blob nor the meta
\* of its temporary artifact is left in the live tree, whether or not the caller
\* supplied references.
C11_NoExtraBlob ==
    FoundStored =>
        /\ ~Live(call[Client].tempHash)
        /\ getPaths(call[Client].tempHash).metaPath \notin DOMAIN files

\* The step in which SimpleFileStorage executes caller p's call at position l.
RunsFor(p, l) ==
    /\ pc[p] = l
    /\ call[p].phase = "inner"
    /\ call'[p].phase = "unlock"

\* C12, as stated: a Move(src, dst) executed while a blob is stored at dst returns
\* an error and changes no file: blob and meta at dst and at src stay as they were.
C12_MoveFailsIfDstExists ==
    [][\A p \in Procs :
          (RunsFor(p, "move") /\ Live(call[p].computedHash))
          => /\ call'[p].res.err # NoErr
             /\ files' = files
      ]_vars

\* No reference the store holds for the hash has the (name, repo) of ref.
NoneMatches(hash, ref) ==
    <<ref.Name, ref.Repo>> \notin RefPairs(MetaRefs(Stored(hash).meta))

\* C13, as stated: whenever the blob of H is stored, a Delete(H, ref) in which no
\* reference of H matches (ref.name, ref.repo) fails with ReferenceNotFound and
\* changes no file: blob, meta and references of H stay, nothing goes to the trash.
C13_ReferenceNotFound ==
    [][LET c == call[Client]
       IN (/\ Runs("delete")
           /\ Live(c.hash)
           /\ NoneMatches(c.hash, c.ref[1]))
          => /\ call'[Client].res.err = ReferenceNotFound
             /\ files' = files
      ]_vars

\* Positions at which the lock wrapper was called by the client itself.
Direct == {"create", "delete", "updatemeta"}

\* C14: when the deadline of a lock acquisition passes, the locked operation ends
\* there: no file and no lock changes, the wrapped storage is not invoked for the
\* call (it leaves no result), the operation is not tried again, and a Create,
\* Delete or UpdateMeta called by the client returns the LockTimeout error.
C14_LockTimeout ==
    [][\A p \in Procs :
          Timeout(p)
          => /\ files' = files
             /\ locks' = locks
             /\ call'[p].res = call[p].res
             /\ call'[p].phase # "inner"
             /\ ~(pc'[p] = pc[p] /\ call'[p].phase = "lock")
             /\ pc[p] \in Direct =>
                   /\ pc'[p] = "done"
                   /\ call'[p].err = LockTimeout
                   /\ call'[p].out = <<>>
                   /\ call'[p].res = NoRes
      ]_vars

C14_Witness ==
    \E p \in Procs :
        /\ pc[p] = "done"
        /\ call[p].op = "Delete"
        /\ call[p].err = LockTimeout
        /\ call[p].timedOut
        /\ call[p].res = NoRes
        /\ \E q \in Procs \ {p} : Inside(q) /\ LockHash(pc[q], call[q]) = call[p].hash

\* C15: a Read(H) or GetMeta(H) through the lock wrapper can always complete,
\* whoever holds the lock of H, and completes without taking or releasing a lock.
C15_ReadsNeverBlock ==
    /\ [](\A p \in Procs : pc[p] \in {"read", "getmeta"} => ENABLED Observe(p))
    /\ [][\A p \in Procs : Observe(p) => locks' = locks]_vars

C15_Witness ==
    \E p \in Procs : \E q \in Procs \ {p} :
        /\ pc[p] = "read"
        /\ Live(call[p].hash)
        /\ Inside(q)
        /\ LockHash(pc[q], call[q]) = call[p].hash
        /\ ENABLED Observe(p)

----------------------------------------------------------------------------
(* The private Docker registry: DockerRegistryPrivateService and its handlers  *)
(* over the storage.  One client sends one request after the other, so every    *)
(* storage call finds its lock free and a handler runs from request to response *)
(* in one step.  The digests of the requests have the form "sha256:<hex>",      *)
(* resolved hashes that HashComputingArtifactStorage hands to the wrapped       *)
(* storage as they are.                                                         *)

MaxRegOps == 3      \* requests served by the registry
SessionTTL == 1     \* age, in requests served, beyond which the sweep removes a session

\* Repository names and tags: one path segment each, as the routes take them.
RegNames == {<<"lib">>, <<"app">>}
RegReferences == {<<"latest">>}

\* "sha256:" + hex.EncodeToString(hasher.Sum(nil))
calculateDigest(data) == <<"s", "h", "a256:">> \o Sha256Hex(data)

getStorageKey(digest) == digest

\* fmt.Sprintf("manifest-ref:%s:%s", name, reference)
getManifestRefKey(name, reference) ==
    <<"m", "a", "nifest-ref:">> \o name \o <<":">> \o reference

DigestMismatch == "digest mismatch"
SessionNotFound == "upload session not found"
SessionNameMismatch == "session name mismatch"
Panicked == "panic: nil pointer dereference"

HTTPStatus(code) ==
    CASE code \in {"NAME_UNKNOWN", "BLOB_UNKNOWN", "MANIFEST_UNKNOWN"} -> 404
      [] code = "BLOB_UPLOAD_UNKNOWN" -> 404
      [] code \in {"BLOB_UPLOAD_INVALID", "MANIFEST_INVALID"} -> 400
      [] code = "UNSUPPORTED" -> 405
      [] OTHER -> 500

\* docker.WriteError(w, &RegistryError{Code: code, ...})
WriteError(req, code) == [req EXCEPT !.status = HTTPStatus(code), !.code = code]

\* The handler panicked: net/http recovers, logs and closes the connection, the
\* client gets no response.
Aborted(req) == [req EXCEPT !.status = 0, !.code = Panicked]

\* SimpleFileStorage.Create(hash, nil, size, meta).  The existing-blob branch never
\* touches the reader.  The new-blob branch creates the blob file, then io.Copy
\* calls Read on the nil reader, which panics: the blob file stays, empty, without
\* meta.
CreateNilReader(f, hash, size, meta, now) ==
    IF getPaths(hash).artifactPath \in DOMAIN f
    THEN CreateExisting(f, hash, size, meta)
    ELSE Result(WriteFile(f, getPaths(hash).artifactPath, DataFile(<<>>, now)),
                <<>>, Panicked)

\* The one element of a singleton set: Only({e(x) : x \in {v}}) is e(v), with v
\* computed once.
Only(S) == CHOOSE x \in S : TRUE

PutManifest(f, name, reference, data, now) ==
    LET digest == calculateDigest(data)
        storageKey == getStorageKey(digest)
        ref == ArtifactReference(name, <<"manifest">>, now)
        meta == ArtifactMeta(storageKey, Len(data), now, <<ref>>)
        mappingKey == getManifestRefKey(name, reference)
        refMeta == ArtifactMeta(digest, 0, now, <<>>)
        \* the reference mapping exists: existingRefMeta.Hash = digest, UpdateMeta
        UpdateMapping(fs, existingRefMeta) ==
            Only({IF ru.err # NoErr
                  THEN [files |-> ru.files, err |-> "failed to update manifest reference"]
                  ELSE [files |-> ru.files, err |-> NoErr] :
                    ru \in {SimpleFileStorage_UpdateMeta(
                                fs, [existingRefMeta EXCEPT !.Hash = digest])}})
        \* Create reference mapping: name/reference -> digest
        CreateMapping(fs) ==
            Only({IF rr.err \in {NoErr, Panicked}
                  THEN [files |-> rr.files, err |-> rr.err]
                  ELSE Only({IF rg.err # NoErr
                             THEN [files |-> rr.files,
                                   err |-> "failed to create manifest reference"]
                             ELSE UpdateMapping(rr.files, rg.meta[1]) :
                               rg \in {GetMeta(rr.files, mappingKey)}}) :
                    rr \in {CreateNilReader(fs, mappingKey, 0, <<refMeta>>, now)}})
        \* the manifest is stored already: merge references
        MergeManifest(fs) ==
            Only({IF g.err # NoErr THEN CreateMapping(fs)
                  ELSE Only({IF u.err # NoErr
                             THEN [files |-> u.files,
                                   err |-> "failed to update manifest metadata"]
                             ELSE CreateMapping(u.files) :
                               u \in {SimpleFileStorage_UpdateMeta(
                                          fs, [g.meta[1] EXCEPT
                                                  !.References = Append(@, ref)])}}) :
                    g \in {GetMeta(fs, storageKey)}})
    IN Only({IF cr.err = HashConflictError THEN MergeManifest(cr.files)
             ELSE IF cr.err # NoErr
             THEN [files |-> cr.files, err |-> "failed to store manifest"]
             ELSE CreateMapping(cr.files) :
               cr \in {SimpleFileStorage_Create(f, storageKey, data, FALSE, Len(data),
                                                <<meta>>, now)}})

\* The media type, which the manifest bytes determine, is left out.
GetManifest(f, name, reference) ==
    LET ReadManifest(digest) ==
            Only({IF rd.err # NoErr
                  THEN [data |-> <<>>, err |-> "failed to read manifest"]
                  ELSE [data |-> rd.data, err |-> NoErr] :
                    rd \in {SimpleFileStorage_Read(f, getStorageKey(digest), 0, -1)}})
    IN Only({IF g.err # NoErr
             THEN [data |-> <<>>, err |-> "manifest reference not found"]
             ELSE IF g.meta[1].Hash = <<>>
             THEN [data |-> <<>>, err |-> "invalid manifest reference"]
             ELSE ReadManifest(g.meta[1].Hash) :
               g \in {GetMeta(f, getManifestRefKey(name, reference))}})

\* Variant of PutBlob that leaves the blob it stored in place on a digest mismatch.
PutBlobNoCleanup(f, name, digest, data, size, now) ==
    LET storageKey == getStorageKey(digest)
        ref == ArtifactReference(name, <<"blob">>, now)
        meta == ArtifactMeta(storageKey, size, now, <<ref>>)
        hashed == IF getPaths(storageKey).artifactPath \in DOMAIN f THEN <<>> ELSE data
    IN Only({IF cr.err # NoErr /\ cr.err # HashConflictError
             THEN [files |-> cr.files, err |-> "failed to store blob"]
             ELSE IF calculateDigest(hashed) # digest
             THEN [files |-> cr.files, err |-> DigestMismatch]
             ELSE [files |-> cr.files, err |-> NoErr] :
               cr \in {SimpleFileStorage_Create(f, storageKey, data, FALSE, size,
                                                <<meta>>, now)}})

\* reader delivers data; io.TeeReader hashes the bytes Create reads from it, which
\* are all of data when Create stores a new blob and none when the blob file is there.
PutBlob(f, name, digest, data, size, now) ==
    LET storageKey == getStorageKey(digest)
        ref == ArtifactReference(name, <<"blob">>, now)
        meta == ArtifactMeta(storageKey, size, now, <<ref>>)
        hashed == IF getPaths(storageKey).artifactPath \in DOMAIN f THEN <<>> ELSE data
        calculatedDigest == calculateDigest(hashed)
        \* Verify digest matches
        Verified(fs) ==
            IF calculatedDigest # digest THEN [files |-> fs, err |-> DigestMismatch]
            ELSE [files |-> fs, err |-> NoErr]
        \* the artifact exists (HashConflictError): merge references
        MergeBlob(fs) ==
            Only({IF g.err # NoErr THEN Verified(fs)
                  ELSE Only({IF u.err # NoErr
                             THEN [files |-> u.files,
                                   err |-> "failed to update blob metadata"]
                             ELSE Verified(u.files) :
                               u \in {SimpleFileStorage_UpdateMeta(
                                          fs, [g.meta[1] EXCEPT
                                                  !.References = Append(@, ref)])}}) :
                    g \in {GetMeta(fs, storageKey)}})
        \* Clean up: delete the artifact we just created
        CleanUp(fs) ==
            Only({[files |-> del.files, err |-> DigestMismatch] :
                    del \in {SimpleFileStorage_Delete(fs, storageKey, ref)}})
    IN Only({IF cr.err = HashConflictError THEN MergeBlob(cr.files)
             ELSE IF cr.err # NoErr
             THEN [files |-> cr.files, err |-> "failed to store blob"]
             ELSE IF calculatedDigest # digest THEN CleanUp(cr.files)
             ELSE [files |-> cr.files, err |-> NoErr] :
               cr \in {SimpleFileStorage_Create(f, storageKey, data, FALSE, size,
                                                <<meta>>, now)}})

\* fmt.Sprintf("%d-%d", time.Now().UnixNano(), len(s.uploadSessions))
NewUUID(sessions, now) == <<now, Cardinality(DOMAIN sessions)>>

\* &UploadSession{...}: Data is a nil *bytes.Buffer
UploadSession(uuid, name, now) ==
    [UUID |-> uuid, Name |-> name, Size |-> 0, Offset |-> 0, CreatedAt |-> now,
     Data |-> <<>>]

StartBlobUpload(sessions, name, now) ==
    LET uuid == NewUUID(sessions, now)
    IN [sessions |-> [u \in DOMAIN sessions \cup {uuid} |->
                         IF u = uuid THEN UploadSession(uuid, name, now)
                         ELSE sessions[u]],
        uuid |-> uuid]

\* session.Data.Bytes(), empty for a nil buffer
Accumulated(session) == IF session.Data = <<>> THEN <<>> ELSE session.Data[1]

UploadBlobChunk(sessions, name, uuid, chunkData, offset) ==
    IF uuid \notin DOMAIN sessions
    THEN [sessions |-> sessions, offset |-> 0, err |-> SessionNotFound]
    ELSE IF sessions[uuid].Name # name
    THEN [sessions |-> sessions, offset |-> 0, err |-> SessionNameMismatch]
    ELSE LET session == sessions[uuid]
             buffer == Accumulated(session) \o chunkData
             written ==
                 IF offset = session.Offset
                 THEN [session EXCEPT !.Data = <<buffer>>,
                                      !.Offset = @ + Len(chunkData),
                                      !.Size = @ + Len(chunkData)]
                 ELSE [session EXCEPT !.Data = <<buffer>>,
                                      !.Offset = Len(buffer),
                                      !.Size = Len(buffer)]
         IN [sessions |-> [sessions EXCEPT ![uuid] = written],
             offset |-> written.Offset, err |-> NoErr]

\* CompleteBlobUpload without its delete(s.uploadSessions, uuid)
CompleteBlobUploadKeepsSession(f, sessions, name, uuid, digest, finalData, now) ==
    LET blob == Accumulated(sessions[uuid]) \o finalData
        totalSize == Len(Accumulated(sessions[uuid])) + Len(finalData)
    IN IF uuid \notin DOMAIN sessions
       THEN [files |-> f, sessions |-> sessions, err |-> SessionNotFound]
       ELSE IF sessions[uuid].Name # name
       THEN [files |-> f, sessions |-> sessions, err |-> SessionNameMismatch]
       ELSE Only({[files |-> put.files, sessions |-> sessions, err |-> put.err] :
                    put \in {PutBlob(f, name, digest, blob, totalSize, now)}})

\* finalData: the request body, never a nil reader for a request the server serves.
CompleteBlobUpload(f, sessions, name, uuid, digest, finalData, now) ==
    LET left == [u \in DOMAIN sessions \ {uuid} |-> sessions[u]]
        blob == Accumulated(sessions[uuid]) \o finalData
        totalSize == Len(Accumulated(sessions[uuid])) + Len(finalData)
    IN IF uuid \notin DOMAIN sessions
       THEN [files |-> f, sessions |-> sessions, err |-> SessionNotFound]
       ELSE IF sessions[uuid].Name # name
       THEN [files |-> f, sessions |-> left, err |-> SessionNameMismatch]
       ELSE Only({[files |-> put.files, sessions |-> left, err |-> put.err] :
                    put \in {PutBlob(f, name, digest, blob, totalSize, now)}})

GetBlob(f, name, digest) ==
    LET ReadBlob(meta) ==
            Only({IF rd.err # NoErr
                  THEN [data |-> <<>>, size |-> 0, err |-> "failed to read blob"]
                  ELSE [data |-> rd.data, size |-> meta.Length, err |-> NoErr] :
                    rd \in {SimpleFileStorage_Read(f, getStorageKey(digest), 0, -1)}})
    IN Only({IF g.err # NoErr
             THEN [data |-> <<>>, size |-> 0, err |-> "blob not found"]
             ELSE ReadBlob(g.meta[1]) :
               g \in {GetMeta(f, getStorageKey(digest))}})

CheckBlobExists(f, name, digest) ==
    LET g == GetMeta(f, getStorageKey(digest))
    IN IF g.err # NoErr THEN [exists |-> FALSE, size |-> 0]
       ELSE [exists |-> TRUE, size |-> g.meta[1].Length]

----------------------------------------------------------------------------
(* The handlers: the response each one writes *)

Request(op, name) == [NoRequest EXCEPT !.op = op, !.name = name]

PutManifestResponse(req, err) ==
    IF err = Panicked THEN Aborted(req)
    ELSE IF err # NoErr THEN WriteError(req, "MANIFEST_INVALID")
    ELSE [req EXCEPT !.status = 201, !.contentDigest = calculateDigest(req.data)]

GetManifestResponse(req, got) ==
    IF got.err # NoErr THEN WriteError(req, "MANIFEST_UNKNOWN")
    ELSE [req EXCEPT !.status = 200, !.body = got.data,
                     !.contentDigest = calculateDigest(got.data)]

\* strings.Contains(err.Error(), "digest mismatch")
BlobUploadResponse(req, err) ==
    IF err = DigestMismatch THEN WriteError(req, "BLOB_UPLOAD_INVALID")
    ELSE IF err # NoErr THEN WriteError(req, "BLOB_UPLOAD_UNKNOWN")
    ELSE [req EXCEPT !.status = 201, !.contentDigest = req.digest]

GetBlobResponse(req, got) ==
    IF got.err # NoErr THEN WriteError(req, "BLOB_UNKNOWN")
    ELSE [req EXCEPT !.status = 200, !.body = got.data, !.contentDigest = req.digest]

HeadBlobResponse(req, found) ==
    IF ~found.exists THEN WriteError(req, "BLOB_UNKNOWN")
    ELSE [req EXCEPT !.status = 200, !.contentDigest = req.digest]

\* The registry serves a request: the clock advances, the storage callers stay idle.
Served ==
    /\ nops < MaxRegOps
    /\ nops' = nops + 1
    /\ UNCHANGED <<locks, pc, call, trashed, given, stream, mgr>>

handlePutManifest(name, reference, data) ==
    LET req == [Request("PutManifest", name) EXCEPT !.reference = reference,
                                                    !.data = data]
    IN /\ Served
       /\ \E put \in {PutManifest(files, name, reference, data, nops + 1)} :
             /\ files' = put.files
             /\ http' = PutManifestResponse(req, put.err)
       /\ UNCHANGED uploadSessions

handleGetManifest(name, reference) ==
    LET req == [Request("GetManifest", name) EXCEPT !.reference = reference]
    IN /\ Served
       /\ \E got \in {GetManifest(files, name, reference)} :
             http' = GetManifestResponse(req, got)
       /\ UNCHANGED <<files, uploadSessions>>

\* POST /v2/{name}/blobs/uploads/ with a digest parameter: contentLength is the
\* length of the body, declared or found by reading the body.
handleSingleRequestBlobUpload(name, digest, data) ==
    LET req == [Request("SingleRequestBlobUpload", name) EXCEPT
                    !.digest = digest, !.data = data, !.received = data]
    IN /\ Served
       /\ \E put \in {PutBlob(files, name, digest, data, Len(data), nops + 1)} :
             /\ files' = put.files
             /\ http' = BlobUploadResponse(req, put.err)
       /\ UNCHANGED uploadSessions

\* POST /v2/{name}/blobs/uploads/ without a digest parameter
handleStartBlobUpload(name) ==
    /\ Served
    /\ \E started \in {StartBlobUpload(uploadSessions, name, nops + 1)} :
          /\ uploadSessions' = started.sessions
          /\ http' = [Request("StartBlobUpload", name) EXCEPT
                         !.status = 202, !.range = <<0, 0>>, !.uuid = started.uuid,
                         !.uploadUUID = started.uuid]
    /\ UNCHANGED files

\* contentRange: the start offset of the Content-Range header, -1 without the header
handleUploadBlobChunk(name, uuid, data, contentRange) ==
    LET req == [Request("UploadBlobChunk", name) EXCEPT
                    !.uuid = uuid, !.data = data, !.offset = contentRange]
        offset == IF contentRange = -1 THEN 0 ELSE contentRange
    IN /\ Served
       /\ \E up \in {UploadBlobChunk(uploadSessions, name, uuid, data, offset)} :
             /\ uploadSessions' = up.sessions
             /\ http' = IF up.err # NoErr THEN WriteError(req, "BLOB_UPLOAD_UNKNOWN")
                        ELSE [req EXCEPT !.status = 204, !.range = <<0, up.offset - 1>>,
                                         !.uploadUUID = uuid]
       /\ UNCHANGED files

handleCompleteBlobUpload(name, uuid, digest, data) ==
    LET req == [Request("CompleteBlobUpload", name) EXCEPT
                    !.uuid = uuid, !.digest = digest, !.data = data,
                    !.received = IF uuid \in DOMAIN uploadSessions
                                 THEN Accumulated(uploadSessions[uuid]) \o data
                                 ELSE <<>>]
    IN /\ Served
       /\ IF digest = <<>>
          THEN /\ http' = WriteError(req, "BLOB_UPLOAD_INVALID")
               /\ UNCHANGED <<files, uploadSessions>>
          ELSE \E done \in {CompleteBlobUpload(files, uploadSessions, name, uuid,
                                                digest, data, nops + 1)} :
                  /\ files' = done.files
                  /\ uploadSessions' = done.sessions
                  /\ http' = BlobUploadResponse(req, done.err)

handleGetBlob(name, digest) ==
    LET req == [Request("GetBlob", name) EXCEPT !.digest = digest]
    IN /\ Served
       /\ \E got \in {GetBlob(files, name, digest)} : http' = GetBlobResponse(req, got)
       /\ UNCHANGED <<files, uploadSessions>>

handleHeadBlob(name, digest) ==
    LET req == [Request("HeadBlob", name) EXCEPT !.digest = digest]
    IN /\ Served
       /\ \E found \in {CheckBlobExists(files, name, digest)} :
             http' = HeadBlobResponse(req, found)
       /\ UNCHANGED <<files, uploadSessions>>

\* The sweep with now.Sub(session.CreatedAt) >= 1*time.Hour
ExpiredAtTTL(sessions, now) ==
    {u \in DOMAIN sessions : now - sessions[u].CreatedAt >= SessionTTL}

\* The sweep of cleanupExpiredSessions, run when the ticker fires: it removes the
\* sessions older than the time to live.
Expired(sessions, now) == {u \in DOMAIN sessions : now - sessions[u].CreatedAt > SessionTTL}

cleanupExpiredSessions ==
    /\ Expired(uploadSessions, nops) # {}
    /\ uploadSessions' = [u \in DOMAIN uploadSessions \ Expired(uploadSessions, nops) |->
                             uploadSessions[u]]
    /\ UNCHANGED <<files, locks, pc, call, nops, trashed, given, http, stream, mgr>>

\* What the client sends
RegDigests == {calculateDigest(d) : d \in Data}
UnknownUUID == <<0, 0>>
RegUUIDs == DOMAIN uploadSessions \cup {UnknownUUID}
ContentRanges == {-1} \cup (0..MaxLen)

RegNext ==
    \/ \E n \in RegNames, r \in RegReferences, d \in Data : handlePutManifest(n, r, d)
    \/ \E n \in RegNames, r \in RegReferences : handleGetManifest(n, r)
    \/ \E n \in RegNames, g \in RegDigests, d \in Data :
          handleSingleRequestBlobUpload(n, g, d)
    \/ \E n \in RegNames : handleStartBlobUpload(n)
    \/ \E n \in RegNames, u \in RegUUIDs, d \in Data, o \in ContentRanges :
          handleUploadBlobChunk(n, u, d, o)
    \/ \E n \in RegNames, u \in RegUUIDs, g \in RegDigests \cup {<<>>}, d \in Data :
          handleCompleteBlobUpload(n, u, g, d)
    \/ \E n \in RegNames, g \in RegDigests : handleGetBlob(n, g)
    \/ \E n \in RegNames, g \in RegDigests : handleHeadBlob(n, g)
    \/ cleanupExpiredSessions

SpecReg == Init /\ [][RegNext]_vars

----------------------------------------------------------------------------
(* Properties of the private registry (SpecReg) *)

\* C16: when a PUT manifest of (name, reference) with body data has been answered
\* 201 and the next request is a GET manifest of the same (name, reference), the
\* GET is answered 200 with exactly data as its body and with the sha256 digest of
\* data as its Docker-Content-Digest.
C16_ManifestRoundTrip ==
    [][(/\ http.op = "PutManifest"
        /\ http.status = 201
        /\ http'.op = "GetManifest"
        /\ http'.name = http.name
        /\ http'.reference = http.reference)
       => /\ http'.status = 200
          /\ http'.body = http.data
          /\ http'.contentDigest = calculateDigest(http.data)]_vars

\* The step serves a blob write: a single-request POST, or the PUT completion, with
\* a digest, of an open session of the same repository name.  http'.received is
\* then the bytes the request handed over (the chunks of the session and the body).
WritesBlob ==
    /\ nops' = nops + 1
    /\ \/ http'.op = "SingleRequestBlobUpload"
       \/ /\ http'.op = "CompleteBlobUpload"
          /\ http'.digest # <<>>
          /\ http'.uuid \in DOMAIN uploadSessions
          /\ uploadSessions[http'.uuid].Name = http'.name

\* A live blob file under the digest holds exactly these bytes.
HoldsBytes(f, digest, bytes) ==
    /\ getPaths(getStorageKey(digest)).artifactPath \in DOMAIN f
    /\ f[getPaths(getStorageKey(digest)).artifactPath].bytes = bytes

\* C17: whenever a blob write (single-request POST or PUT completion) hands over
\* bytes whose sha256 digest differs from the declared digest, whatever the store
\* holds, the response is 400 BLOB_UPLOAD_INVALID and the bytes are not stored
\* under the declared digest.
C17_DigestValidation ==
    [][(WritesBlob /\ calculateDigest(http'.received) # http'.digest)
       => /\ http'.status = 400
          /\ http'.code = "BLOB_UPLOAD_INVALID"
          /\ ~HoldsBytes(files', http'.digest, http'.received)]_vars

\* The blob file under the digest lies in the trash, holding exactly these bytes.
TrashHoldsBytes(f, digest, bytes) ==
    /\ getTrashPath(getStorageKey(digest)).artifactPath \in DOMAIN f
    /\ f[getTrashPath(getStorageKey(digest)).artifactPath].bytes = bytes

\* Neither a blob file nor a meta is stored under the digest.
NothingUnder(f, digest) ==
    /\ getPaths(getStorageKey(digest)).artifactPath \notin DOMAIN f
    /\ getPaths(getStorageKey(digest)).metaPath \notin DOMAIN f

\* C18: whenever a blob write is rejected for digest mismatch (400
\* BLOB_UPLOAD_INVALID) and nothing was stored under the declared digest before
\* the request, then afterwards the bytes of the attempt lie in the trash, where
\* the reference-delete path moved them, nothing is stored under the declared
\* digest, and a HEAD and a GET of that digest are both answered 404.
C18_RejectedInvisible ==
    [][(/\ WritesBlob
        /\ calculateDigest(http'.received) # http'.digest
        /\ http'.code = "BLOB_UPLOAD_INVALID"
        /\ NothingUnder(files, http'.digest))
       => /\ TrashHoldsBytes(files', http'.digest, http'.received)
          /\ NothingUnder(files', http'.digest)
          /\ HeadBlobResponse(http', CheckBlobExists(files', http'.name,
                                                     http'.digest)).status = 404
          /\ GetBlobResponse(http', GetBlob(files', http'.name,
                                            http'.digest)).status = 404]_vars

\* A PUT completion of bytes sent in part as a chunk was rejected for digest
\* mismatch: the bytes lie in the trash and nothing is stored under the digest.
C18_Witness ==
    /\ http.op = "CompleteBlobUpload"
    /\ http.code = "BLOB_UPLOAD_INVALID"
    /\ http.status = 400
    /\ Len(http.received) > Len(http.data)
    /\ calculateDigest(http.received) # http.digest
    /\ TrashHoldsBytes(files, http.digest, http.received)
    /\ NothingUnder(files, http.digest)

\* The step serves a PATCH on an open session of the same repository name.
PatchesSession ==
    /\ nops' = nops + 1
    /\ http'.op = "UploadBlobChunk"
    /\ http'.uuid \in DOMAIN uploadSessions
    /\ uploadSessions[http'.uuid].Name = http'.name

\* C19: a PATCH on an open session is answered 204 with Range 0-(n-1), n being
\* the number of bytes of all the chunks sent so far, and its chunk is appended to
\* them, whatever start offset its Content-Range declares; and a PUT completion
\* whose digest is the sha256 digest of the chunks followed by its body is
\* answered 201, after which a GET of the digest returns exactly those bytes.
C19_ChunkedUpload ==
    [][/\ PatchesSession =>
            LET sofar == Accumulated(uploadSessions[http'.uuid]) \o http'.data
            IN /\ http'.status = 204
               /\ http'.range = <<0, Len(sofar) - 1>>
               /\ http'.uuid \in DOMAIN uploadSessions'
               /\ Accumulated(uploadSessions'[http'.uuid]) = sofar
       /\ (/\ WritesBlob
           /\ http'.op = "CompleteBlobUpload"
           /\ http'.digest = calculateDigest(http'.received)) =>
            /\ http'.status = 201
            /\ GetBlob(files', http'.name, http'.digest).err = NoErr
            /\ GetBlob(files', http'.name, http'.digest).data = http'.received]_vars


----------------------------------------------------------------------------
(* Docker registry proxy: GetBlob with cache-through streaming *)

MaxProxyOps == 3      \* GetBlob requests the proxy serves, one after another
MaxBody == 2          \* longest upstream blob, in bytes
CacheTTL == 1         \* s.cacheTTL, in clock ticks (one tick per request)

EOF == "EOF"
ErrClosedPipe == "io: read/write on closed pipe"
UpstreamUnreachable == "failed to fetch blob from upstream"
UpstreamReadFailed == "unexpected EOF"
BodyClosed == "http: read on closed response body"
StreamFailed == "failed to stream blob"
CacheStreamFailed == "streaming failed"

ProxyNames == {<<"lib">>}

\* The blobs the upstream registry holds; each is served under its own digest.
UpstreamBlobs == {[i \in 1..n |-> i % 2] : n \in 0..MaxBody}

getCacheKey(name, digest) == digest

\* Variant of isCacheExpired that expires an entry as soon as its age reaches the TTL.
isCacheExpiredAtTTL(meta, now) ==
    IF meta = <<>> THEN TRUE
    ELSE IF CacheTTL <= 0 THEN FALSE
    ELSE now - meta[1].CreatedTimestamp >= CacheTTL

\* now: time.Now().Unix() when the request is served.
isCacheExpired(meta, now) ==
    IF meta = <<>> THEN TRUE
    ELSE IF CacheTTL <= 0 THEN FALSE
    ELSE now - meta[1].CreatedTimestamp > CacheTTL

\* io.Pipe: p.done is closed by the first Close of either end.
PipeDone(p) == p.werr # "" \/ p.rerr # ""

\* PipeWriter.CloseWithError / Close (err = EOF): onceError keeps the first error.
CloseWrite(p, err) == IF p.werr = "" THEN [p EXCEPT !.werr = err] ELSE p

\* PipeReader.Close.
CloseRead(p) == IF p.rerr = "" THEN [p EXCEPT !.rerr = ErrClosedPipe] ELSE p

readCloseError(p) == IF p.rerr = "" /\ p.werr # "" THEN p.werr ELSE ErrClosedPipe

writeCloseError(p) == IF p.werr = "" /\ p.rerr # "" THEN p.rerr ELSE ErrClosedPipe

\* The meta GetBlob hands to Create on a miss.
ProxyMeta(s) ==
    ArtifactMeta(getCacheKey(s.name, s.digest), s.size, s.now,
                 <<ArtifactReference(s.name, <<"blob">>, s.now)>>)

\* Variant of the file write of io.Copy that replaces the file's content.
WriteAtStart(f, path, chunk) == WriteFile(f, path, [f[path] EXCEPT !.bytes = chunk])

\* dst.Write(chunk) of io.Copy inside Create: the file offset advances.
WriteAtEnd(f, path, chunk) == WriteFile(f, path, [f[path] EXCEPT !.bytes = @ \o chunk])

\* The request's pipes and goroutines have all come to rest.
Finished ==
    stream.streamPc = "done" /\ stream.cachePc = "done" /\ stream.clientPc = "closed"

\* io.Copy of the stream goroutine returned err: the error path runs next.
StreamFail(s, err) ==
    [s EXCEPT !.streamPc = "close_response", !.streamErr = err, !.chunk = <<>>]

\* DockerRegistryProxyService.GetBlob up to its return: cache check, upstream
\* request, pipes and goroutines.  reachable: the upstream answers the request.
\* size: resp.ContentLength, -1 when the upstream does not declare it.
ProxyGetBlob(name, body, size, reachable) ==
    /\ nops < MaxProxyOps
    /\ Finished
    /\ \E digest \in {calculateDigest(body)}, now \in {nops + 1} :
       \E g \in {GetMeta(files, getCacheKey(name, digest))},
          rd \in {SimpleFileStorage_Read(files, getCacheKey(name, digest), 0, -1)} :
          \E req \in {[NoStream EXCEPT !.name = name, !.digest = digest,
                                       !.body = body, !.now = now,
                                       !.reachable = reachable,
                                       !.filled = stream.filled]} :
             IF g.err = NoErr /\ g.meta # <<>> /\ ~isCacheExpired(g.meta, now)
                /\ rd.err = NoErr
             THEN stream' = [req EXCEPT !.phase = "hit", !.size = rd.length,
                                        !.received = rd.data, !.outcome = "eof"]
             ELSE IF ~reachable
             THEN stream' = [req EXCEPT !.phase = "error",
                                        !.outcome = UpstreamUnreachable]
             ELSE stream' = [req EXCEPT !.phase = "miss", !.size = size,
                                        !.streamPc = "read", !.cachePc = "create",
                                        !.clientPc = "reading"]
    /\ nops' = nops + 1
    /\ UNCHANGED <<files, locks, pc, call, trashed, given, uploadSessions, http, mgr>>

\* Cache goroutine: Create up to its first read.  An existing blob file makes
\* Create return without reading; the deferred cacheReader.Close() follows.
CacheCreate ==
    /\ stream.cachePc = "create"
    /\ \E key \in {getCacheKey(stream.name, stream.digest)} :
          IF getPaths(key).artifactPath \in DOMAIN files
          THEN \E r \in {CreateExisting(files, key, stream.size, <<ProxyMeta(stream)>>)} :
                  /\ files' = r.files
                  /\ stream' = [stream EXCEPT !.cachePc = "done", !.cacheErr = r.err,
                                              !.cacheBranch = "existing",
                                              !.cachePipe = CloseRead(@)]
          ELSE /\ files' = WriteFile(files, getPaths(key).artifactPath,
                                     DataFile(<<>>, stream.now))
               /\ stream' = [stream EXCEPT !.cachePc = "copy", !.cacheBranch = "new"]
    /\ UNCHANGED <<locks, pc, call, nops, trashed, given, uploadSessions, http, mgr>>

\* Cache goroutine: one cacheReader.Read of io.Copy.
CacheRead ==
    /\ stream.cachePc = "copy"
    /\ \/ /\ PipeDone(stream.cachePipe)
          /\ IF readCloseError(stream.cachePipe) = EOF
             THEN stream' = [stream EXCEPT !.cachePc = "meta"]
             ELSE stream' = [stream EXCEPT !.cachePc = "done", !.cacheErr = WriteFailed,
                                           !.cachePipe = CloseRead(@)]
       \/ /\ ~PipeDone(stream.cachePipe)
          /\ stream.cachePipe.offered # <<>>
          /\ stream' = [stream EXCEPT !.cacheBuf = stream.cachePipe.offered[1],
                                      !.cachePipe.offered = <<>>,
                                      !.cachePc = "write"]
    /\ UNCHANGED <<files, locks, pc, call, nops, trashed, given, uploadSessions, http, mgr>>

\* Cache goroutine: io.Copy writes what it read to the blob file.
CacheWrite ==
    /\ stream.cachePc = "write"
    /\ files' = WriteAtEnd(files, getPaths(getCacheKey(stream.name, stream.digest)).artifactPath,
                           stream.cacheBuf)
    /\ stream' = [stream EXCEPT !.cachePc = "copy", !.cacheBuf = <<>>]
    /\ UNCHANGED <<locks, pc, call, nops, trashed, given, uploadSessions, http, mgr>>

\* Cache goroutine: after EOF Create writes the meta and returns.
CacheMeta ==
    /\ stream.cachePc = "meta"
    /\ \E key \in {getCacheKey(stream.name, stream.digest)} :
       \E file \in {files[getPaths(key).artifactPath]} :
          files' = CreateNew(files, key, file.bytes, <<ProxyMeta(stream)>>, file.mtime).files
    /\ stream' = [stream EXCEPT !.cachePc = "done", !.cacheErr = NoErr,
                                !.cachePipe = CloseRead(@),
                                !.filled = [d \in DOMAIN @ \cup {stream.digest} |->
                                              IF d = stream.digest THEN stream.now
                                              ELSE @[d]]]
    /\ UNCHANGED <<locks, pc, call, nops, trashed, given, uploadSessions, http, mgr>>

\* Stream goroutine: teeReader.Read, that is blobReader.Read and the start of
\* cacheWriter.Write of what was read.
StreamRead ==
    /\ stream.streamPc = "read"
    /\ \/ /\ stream.upstreamClosed
          /\ stream' = StreamFail(stream, BodyClosed)
       \/ /\ ~stream.upstreamClosed
          /\ stream' = StreamFail(stream, UpstreamReadFailed)
       \/ /\ ~stream.upstreamClosed
          /\ stream.sent = Len(stream.body)
          /\ stream' = [stream EXCEPT !.streamPc = "close_response"]
       \/ /\ ~stream.upstreamClosed
          /\ \E n \in 1..(Len(stream.body) - stream.sent) :
             \E chunk \in {SubSeq(stream.body, stream.sent + 1, stream.sent + n)} :
                IF PipeDone(stream.cachePipe)
                THEN stream' = StreamFail([stream EXCEPT !.sent = @ + n],
                                          writeCloseError(stream.cachePipe))
                ELSE stream' = [stream EXCEPT !.sent = @ + n, !.chunk = chunk,
                                              !.cachePipe.offered = <<chunk>>,
                                              !.streamPc = "tee"]
    /\ UNCHANGED <<files, locks, pc, call, nops, trashed, given, uploadSessions, http, mgr>>

\* Stream goroutine: cacheWriter.Write returns, and on success io.Copy starts
\* responseWriter.Write of the same bytes.
StreamTee ==
    /\ stream.streamPc = "tee"
    /\ \/ /\ stream.cachePipe.offered = <<>>
          /\ IF PipeDone(stream.responsePipe)
             THEN stream' = StreamFail(stream, writeCloseError(stream.responsePipe))
             ELSE stream' = [stream EXCEPT !.responsePipe.offered = <<stream.chunk>>,
                                           !.streamPc = "respond"]
       \/ /\ stream.cachePipe.offered # <<>>
          /\ PipeDone(stream.cachePipe)
          /\ stream' = StreamFail([stream EXCEPT !.cachePipe.offered = <<>>],
                                  writeCloseError(stream.cachePipe))
    /\ UNCHANGED <<files, locks, pc, call, nops, trashed, given, uploadSessions, http, mgr>>

\* Stream goroutine: responseWriter.Write returns.
StreamRespond ==
    /\ stream.streamPc = "respond"
    /\ \/ /\ stream.responsePipe.offered = <<>>
          /\ stream' = [stream EXCEPT !.streamPc = "read", !.chunk = <<>>]
       \/ /\ stream.responsePipe.offered # <<>>
          /\ PipeDone(stream.responsePipe)
          /\ stream' = StreamFail([stream EXCEPT !.responsePipe.offered = <<>>],
                                  writeCloseError(stream.responsePipe))
    /\ UNCHANGED <<files, locks, pc, call, nops, trashed, given, uploadSessions, http, mgr>>

\* Stream goroutine: responseWriter.CloseWithError after a failed copy, or the
\* deferred responseWriter.Close() after a complete one.
StreamCloseResponse ==
    /\ stream.streamPc = "close_response"
    /\ stream' = [stream EXCEPT
                    !.responsePipe = CloseWrite(@, IF stream.streamErr = ""
                                                   THEN EOF ELSE StreamFailed),
                    !.streamPc = "close_cache"]
    /\ UNCHANGED <<files, locks, pc, call, nops, trashed, given, uploadSessions, http, mgr>>

\* Stream goroutine: the same for cacheWriter, then the deferred blobReader.Close().
StreamCloseCache ==
    /\ stream.streamPc = "close_cache"
    /\ stream' = [stream EXCEPT
                    !.cachePipe = CloseWrite(@, IF stream.streamErr = ""
                                                THEN EOF ELSE CacheStreamFailed),
                    !.upstreamClosed = TRUE,
                    !.streamPc = "done"]
    /\ UNCHANGED <<files, locks, pc, call, nops, trashed, given, uploadSessions, http, mgr>>

\* The HTTP handler's io.Copy: one streamingBlobReader.Read.
ClientRead ==
    /\ stream.clientPc = "reading"
    /\ \/ /\ PipeDone(stream.responsePipe)
          /\ stream' = [stream EXCEPT
                          !.clientPc = IF readCloseError(stream.responsePipe) = EOF
                                       THEN "eof" ELSE "failed"]
       \/ /\ ~PipeDone(stream.responsePipe)
          /\ stream.responsePipe.offered # <<>>
          /\ stream' = [stream EXCEPT !.received = @ \o stream.responsePipe.offered[1],
                                      !.responsePipe.offered = <<>>]
    /\ UNCHANGED <<files, locks, pc, call, nops, trashed, given, uploadSessions, http, mgr>>

\* streamingBlobReader.Close, first step: s.reader.Close().  It runs after EOF,
\* after a read error, or while the body is still being read when the HTTP
\* client has gone away.
ClientCloseReader ==
    /\ stream.clientPc \in {"reading", "eof", "failed"}
    /\ stream' = [stream EXCEPT
                    !.outcome = IF stream.clientPc = "reading"
                                THEN "abandoned" ELSE stream.clientPc,
                    !.responsePipe = CloseRead(@),
                    !.clientPc = "close_upstream"]
    /\ UNCHANGED <<files, locks, pc, call, nops, trashed, given, uploadSessions, http, mgr>>

\* s.blobReader.Close()
ClientCloseUpstream ==
    /\ stream.clientPc = "close_upstream"
    /\ stream' = [stream EXCEPT !.upstreamClosed = TRUE,
                                !.clientPc = "close_response_writer"]
    /\ UNCHANGED <<files, locks, pc, call, nops, trashed, given, uploadSessions, http, mgr>>

\* s.responseWriter.Close()
ClientCloseResponseWriter ==
    /\ stream.clientPc = "close_response_writer"
    /\ stream' = [stream EXCEPT !.responsePipe = CloseWrite(@, EOF),
                                !.clientPc = "close_cache_writer"]
    /\ UNCHANGED <<files, locks, pc, call, nops, trashed, given, uploadSessions, http, mgr>>

\* s.cacheWriter.Close()
ClientCloseCacheWriter ==
    /\ stream.clientPc = "close_cache_writer"
    /\ stream' = [stream EXCEPT !.cachePipe = CloseWrite(@, EOF),
                                !.clientPc = "close_cache_reader"]
    /\ UNCHANGED <<files, locks, pc, call, nops, trashed, given, uploadSessions, http, mgr>>

\* Close without its s.cacheReader.Close()
ClientCloseLeavesCacheReader ==
    /\ stream.clientPc = "close_cache_reader"
    /\ stream' = [stream EXCEPT !.clientPc = "closed"]
    /\ UNCHANGED <<files, locks, pc, call, nops, trashed, given, uploadSessions, http, mgr>>

\* s.cacheReader.Close(); the waits on cacheDone and streamDone time out.
ClientCloseCacheReader ==
    /\ stream.clientPc = "close_cache_reader"
    /\ stream' = [stream EXCEPT !.cachePipe = CloseRead(@), !.clientPc = "closed"]
    /\ UNCHANGED <<files, locks, pc, call, nops, trashed, given, uploadSessions, http, mgr>>

ProxyNext ==
    \/ \E name \in ProxyNames, body \in UpstreamBlobs, reachable \in BOOLEAN :
       \E size \in {Len(body), -1} : ProxyGetBlob(name, body, size, reachable)
    \/ CacheCreate
    \/ CacheRead
    \/ CacheWrite
    \/ CacheMeta
    \/ StreamRead
    \/ StreamTee
    \/ StreamRespond
    \/ StreamCloseResponse
    \/ StreamCloseCache
    \/ ClientRead
    \/ ClientCloseReader
    \/ ClientCloseUpstream
    \/ ClientCloseResponseWriter
    \/ ClientCloseCacheWriter
    \/ ClientCloseCacheReader

SpecProxy == Init /\ [][ProxyNext]_vars

\* The blob file stored under the request's digest holds exactly the upstream body.
CacheHoldsBody ==
    \E path \in {getPaths(getCacheKey(stream.name, stream.digest)).artifactPath} :
       /\ path \in DOMAIN files
       /\ files[path].bytes = stream.body

\* C20: when a proxy GetBlob misses the cache and the client reads the stream to
\* EOF, the client has received exactly the upstream body, and once the cache
\* goroutine has returned, the blob file under the digest holds exactly the
\* bytes of the upstream body (len(upstream) bytes, byte-equal).
C20_CacheThroughStreaming ==
    (stream.phase = "miss" /\ (stream.clientPc = "eof" \/ stream.outcome = "eof"))
        => /\ stream.received = stream.body
           /\ stream.cachePc = "done" => CacheHoldsBody

\* A miss for a two-byte blob read to EOF, with the request at rest.
C20_Witness ==
    /\ stream.phase = "miss"
    /\ stream.outcome = "eof"
    /\ Finished
    /\ Len(stream.body) > 1
    /\ stream.received = stream.body
    /\ CacheHoldsBody

\* A GetBlob is received for a digest whose last cache fill is within the TTL.
HitExpected ==
    /\ nops' = nops + 1
    /\ stream'.digest \in DOMAIN stream.filled
    /\ stream'.now - stream.filled[stream'.digest] <= CacheTTL

\* C21: once a miss for a digest has completed its cache fill (Create read the
\* stream to EOF and wrote the meta), every GetBlob for that digest within the
\* TTL is served from the cache: it is a hit, makes no upstream request and
\* succeeds whether or not the upstream is reachable, and returns what the
\* cache holds.
C21_CacheHitWithoutUpstream ==
    [][HitExpected =>
          /\ stream'.phase = "hit"
          /\ stream'.outcome = "eof"
          /\ stream'.received =
                files[getPaths(getCacheKey(stream'.name, stream'.digest)).artifactPath].bytes]_vars

\* A hit for a two-byte blob served while the upstream is unreachable.
C21_Witness ==
    /\ stream.phase = "hit"
    /\ ~stream.reachable
    /\ stream.digest \in DOMAIN stream.filled
    /\ stream.now - stream.filled[stream.digest] <= CacheTTL
    /\ Len(stream.received) = 2
    /\ stream.received = stream.body

\* The cache goroutine's Create has failed, or has returned without reading the
\* stream because the blob file was already present.
CacheGaveUp ==
    /\ stream.cachePc = "done"
    /\ (stream.cacheBranch = "existing" \/ stream.cacheErr # NoErr)

\* C22: on a miss, when the cache-side Create fails or returns before consuming
\* the whole stream, and the upstream delivers its body, a client that keeps
\* reading reaches EOF, never an error, having received the complete upstream body.
C22_CacheFailureNeverFailsClient ==
    (/\ stream.phase = "miss"
     /\ CacheGaveUp
     /\ stream.streamErr \notin {UpstreamReadFailed, BodyClosed}
     /\ stream.clientPc \in {"eof", "failed"})
        => (stream.clientPc = "eof" /\ stream.received = stream.body)

----------------------------------------------------------------------------
(* StorageManager and RegistryManager: Create *)

MaxMgrOps == 3        \* Create calls made one after another
MaxLabelLen == 63     \* a DNS label: one character and {0,61} and one character
MaxDNSLen == 253      \* len(name) > 253 is rejected

LowerAlnum ==
    {"a", "b", "c", "d", "e", "f", "g", "h", "i", "j", "k", "l", "m", "n", "o", "p", "q",
     "r", "s", "t", "u", "v", "w", "x", "y", "z",
     "0", "1", "2", "3", "4", "5", "6", "7", "8", "9"}

\* strings.Split(name, "."), as the pattern's label (\.label)* reads the name.
RECURSIVE SplitDots(_)
SplitDots(name) ==
    LET dots == {i \in 1..Len(name) : name[i] = "."}
    IN IF dots = {} THEN <<name>>
       ELSE LET i == CHOOSE j \in dots : \A k \in dots : j <= k
            IN <<SubSeq(name, 1, i - 1)>> \o SplitDots(SubSeq(name, i + 1, Len(name)))

\* [a-z0-9]([a-z0-9-]{0,61}[a-z0-9])?
ValidLabel(label) ==
    /\ Len(label) >= 1
    /\ Len(label) <= MaxLabelLen
    /\ label[1] \in LowerAlnum
    /\ label[Len(label)] \in LowerAlnum
    /\ \A i \in 1..Len(label) : label[i] \in LowerAlnum \cup {"-"}

isValidDNSName(name) ==
    /\ Len(name) <= MaxDNSLen
    /\ Len(name) # 0
    /\ \E labels \in {SplitDots(name)} : \A i \in 1..Len(labels) : ValidLabel(labels[i])

\* A value of type interface{} passed in params: its dynamic type and its value.
Param(kind, val) == [kind |-> kind, val |-> val]
Str(val) == Param("string", val)

FactoryOk == [err |-> "", panicked |-> FALSE]
FactoryErr(msg) == [err |-> msg, panicked |-> FALSE]
\* runtime error: index out of range
FactoryPanic == [err |-> "", panicked |-> TRUE]

\* NewSimpleFileStorage: os.MkdirAll of the base directory.
NewSimpleFileStorage(mkdirOk) ==
    IF mkdirOk THEN FactoryOk ELSE FactoryErr("failed to create base directory")

NewConcurrentArtifactStorage(lockDir, lockTimeout, mkdirOk) ==
    IF lockDir.val = <<>> THEN FactoryErr("lockDir cannot be empty")
    ELSE IF lockTimeout.val = <<"0s">> THEN FactoryErr("lockTimeout must be positive")
    ELSE IF ~mkdirOk THEN FactoryErr("failed to create lock directory")
    ELSE FactoryOk

\* The factories registered by StorageManager.init; params[1] is the alias.
StorageFactory(className, params, mkdirOk) ==
    IF className = "std.filestorage"
    THEN IF Len(params) < 2 THEN FactoryErr("filestorage requires alias and basePath parameters")
         ELSE IF params[1].kind # "string" THEN FactoryErr("filestorage alias must be a string")
         ELSE IF params[2].kind # "string" THEN FactoryErr("filestorage basePath must be a string")
         ELSE NewSimpleFileStorage(mkdirOk)
    ELSE IF className = "concurrent.filestorage"
    THEN IF Len(params) < 4 THEN FactoryErr("concurrent.filestorage requires 4 parameters")
         ELSE IF params[1].kind # "string" THEN FactoryErr("alias must be a string")
         ELSE IF params[2].kind # "string" THEN FactoryErr("baseDir must be a string")
         ELSE IF params[3].kind # "string" THEN FactoryErr("lockDir must be a string")
         ELSE IF params[4].kind # "duration" THEN FactoryErr("lockTimeout must be a time.Duration")
         ELSE IF ~mkdirOk THEN FactoryErr("failed to create underlying storage")
         ELSE NewConcurrentArtifactStorage(params[3], params[4], mkdirOk)
    ELSE \* hashcomputing.filestorage
         IF Len(params) < 2 THEN FactoryErr("hashcomputing.filestorage requires at least 2 parameters")
         ELSE IF params[1].kind # "string" THEN FactoryErr("alias must be a string")
         ELSE IF params[2].kind # "string" THEN FactoryErr("baseDir must be a string")
         ELSE IF Len(params) = 2 THEN NewSimpleFileStorage(mkdirOk)
         ELSE IF Len(params) = 4
         THEN IF params[3].kind # "string" THEN FactoryErr("lockDir must be a string")
              ELSE IF params[4].kind # "duration"
              THEN FactoryErr("lockTimeout must be a time.Duration")
              ELSE IF ~mkdirOk THEN FactoryErr("failed to create underlying storage")
              ELSE NewConcurrentArtifactStorage(params[3], params[4], mkdirOk)
         ELSE FactoryErr("hashcomputing.filestorage requires 2 or 4 parameters")

StorageClasses == {"std.filestorage", "concurrent.filestorage", "hashcomputing.filestorage"}

\* The registry constructors resolve storageAlias through StorageManager.Get.
ResolveStorage(storages, storageAlias) ==
    IF storageAlias.val = <<>> THEN FactoryErr("storageAlias cannot be empty")
    ELSE IF storageAlias.val \notin DOMAIN storages
    THEN FactoryErr("failed to get storage by alias")
    ELSE FactoryOk

\* The factories registered by RegistryManager.init; params[1] is the alias and
\* params[2] the service binding.  An index past len(params) panics.
RegistryFactory(className, params, storages) ==
    IF className = "docker.registry"
    THEN IF Len(params) < 3 THEN FactoryErr("docker.registry requires more parameters")
         ELSE IF params[1].kind # "string" THEN FactoryErr("alias must be a string")
         ELSE IF params[2].kind \notin {"nil", "addr"}
         THEN FactoryErr("serviceBinding must be net.Addr")
         ELSE IF params[3].kind # "string" THEN FactoryErr("storageAlias must be a string")
         ELSE IF Len(params) < 4 THEN FactoryPanic
         ELSE IF params[4].kind # "upstream"
         THEN FactoryErr("upstream must be *models.UpstreamRegistry")
         ELSE IF Len(params) >= 5 /\ params[5].kind # "int64"
         THEN FactoryErr("cacheTTL must be int64")
         ELSE IF params[3].val = <<>> THEN FactoryErr("storageAlias cannot be empty")
         ELSE IF params[4].val = <<>> THEN FactoryErr("upstream URL cannot be empty")
         ELSE ResolveStorage(storages, params[3])
    ELSE \* docker.registry.private
         IF Len(params) < 2 THEN FactoryErr("docker.registry.private requires more parameters")
         ELSE IF params[1].kind # "string" THEN FactoryErr("alias must be a string")
         ELSE IF params[2].kind \notin {"nil", "addr"}
         THEN FactoryErr("serviceBinding must be net.Addr")
         ELSE IF Len(params) < 3 THEN FactoryPanic
         ELSE IF params[3].kind # "string" THEN FactoryErr("storageAlias must be a string")
         ELSE IF Len(params) >= 4 /\ params[4].kind # "string"
         THEN FactoryErr("description must be a string")
         ELSE ResolveStorage(storages, params[3])

RegistryClasses == {"docker.registry", "docker.registry.private"}

\* What Create returns and the map it leaves, given the map it finds.
\* made: the factory's verdict on the parameters.
ManagerCreate(instances, classes, className, alias, made, serial) ==
    IF ~isValidDNSName(alias)
    THEN [instances |-> instances, err |-> "invalid DNS name for alias",
          panicked |-> FALSE, instance |-> <<>>]
    ELSE IF alias \in DOMAIN instances
    THEN [instances |-> instances, err |-> "alias already exists",
          panicked |-> FALSE, instance |-> <<>>]
    ELSE IF className \notin classes
    THEN [instances |-> instances, err |-> "class not found",
          panicked |-> FALSE, instance |-> <<>>]
    ELSE IF made.panicked
    THEN [instances |-> instances, err |-> "", panicked |-> TRUE, instance |-> <<>>]
    ELSE IF made.err # ""
    THEN [instances |-> instances, err |-> "failed to create instance",
          panicked |-> FALSE, instance |-> <<>>]
    ELSE LET created == [className |-> className, alias |-> alias, serial |-> serial]
         IN [instances |-> [a \in DOMAIN instances \cup {alias} |->
                               IF a = alias THEN <<created>> ELSE instances[a]],
             err |-> "", panicked |-> FALSE, instance |-> <<created>>]

LastCreate(op, className, alias, r) ==
    [op |-> op, className |-> className, alias |-> alias,
     err |-> r.err, panicked |-> r.panicked, instance |-> r.instance]

\* StorageManager.Create(className, alias, params...)
StorageManager_Create(className, alias, params, mkdirOk) ==
    /\ nops < MaxMgrOps
    /\ \E made \in {StorageFactory(className, <<Str(alias)>> \o params, mkdirOk)} :
       \E r \in {ManagerCreate(mgr.storages, StorageClasses, className, alias,
                               made, nops + 1)} :
          mgr' = [mgr EXCEPT
                    !.storages = r.instances,
                    !.configs = IF r.instance = <<>> THEN @
                                ELSE [a \in DOMAIN @ \cup {alias} |->
                                        IF a = alias THEN <<className, params>> ELSE @[a]],
                    !.last = LastCreate("StorageManager.Create", className, alias, r)]
    /\ nops' = nops + 1
    /\ UNCHANGED <<files, locks, pc, call, trashed, given, uploadSessions, http, stream>>

\* RegistryManager.Create(className, alias, serviceBinding, params...)
RegistryManager_Create(className, alias, serviceBinding, params) ==
    /\ nops < MaxMgrOps
    /\ \E made \in {RegistryFactory(className, <<Str(alias), serviceBinding>> \o params,
                                    mgr.storages)} :
       \E r \in {ManagerCreate(mgr.registries, RegistryClasses, className, alias,
                               made, nops + 1)} :
          mgr' = [mgr EXCEPT
                    !.registries = r.instances,
                    !.last = LastCreate("RegistryManager.Create", className, alias, r)]
    /\ nops' = nops + 1
    /\ UNCHANGED <<files, locks, pc, call, trashed, given, uploadSessions, http, stream>>

\* Names at the limits of the pattern: a label of n characters, and a name of
\* four labels, the first three of 63 characters.
LongLabel(n) == [i \in 1..n |-> "a"]
LongName(last) ==
    LongLabel(MaxLabelLen) \o <<".">> \o LongLabel(MaxLabelLen) \o <<".">>
        \o LongLabel(MaxLabelLen) \o <<".">> \o LongLabel(last)

\* One alias for each way the pattern accepts or rejects a name.
Aliases ==
    {<<>>, <<"a">>, <<"A">>, <<"a", "-">>, <<"-", "a">>, <<"a", "-", "a">>,
     <<"a", ".">>, <<"a", ".", "a">>, <<"a", ".", ".", "a">>, <<"a", "_", "a">>,
     LongLabel(MaxLabelLen), LongLabel(MaxLabelLen + 1),
     LongName(MaxDNSLen - 3 * (MaxLabelLen + 1)),
     LongName(MaxDNSLen - 3 * (MaxLabelLen + 1) + 1)}

StorageClassNames == StorageClasses \cup {"nonexistent.class"}
RegistryClassNames == RegistryClasses \cup {"nonexistent.class"}

StorageParams ==
    {<<>>, <<Str(<<"/d">>)>>,
     <<Str(<<"/d">>), Str(<<"/l">>), Param("duration", <<"5s">>)>>}

RegistryParams ==
    {<<>>, <<Str(<<>>)>>, <<Str(<<"a">>)>>,
     <<Str(<<"a">>), Str(<<"description">>)>>,
     <<Str(<<"a">>), Param("upstream", <<"url">>)>>}

ServiceBindings == {Param("nil", <<>>), Param("addr", <<":5000">>)}

MgrNext ==
    \/ \E className \in StorageClassNames, alias \in Aliases, params \in StorageParams,
          mkdirOk \in BOOLEAN :
          StorageManager_Create(className, alias, params, mkdirOk)
    \/ \E className \in RegistryClassNames, alias \in Aliases, serviceBinding \in ServiceBindings,
          params \in RegistryParams :
          RegistryManager_Create(className, alias, serviceBinding, params)

SpecMgr == Init /\ [][MgrNext]_vars

\* A valid lowercase DNS name: at most 253 characters of a-z, 0-9, "-" and ".",
\* in labels of 1 to 63 characters that neither begin nor end with "-".
ValidLowercaseDNS(name) ==
    /\ Len(name) \in 1..253
    /\ \A i \in 1..Len(name) : name[i] \in LowerAlnum \cup {"-", "."}
    /\ name[1] \notin {"-", "."}
    /\ name[Len(name)] \notin {"-", "."}
    /\ \A i \in 1..(Len(name) - 1) :
          /\ name[i] = "." => name[i + 1] \notin {".", "-"}
          /\ name[i] = "-" => name[i + 1] # "."
    /\ \E ends \in {{0, Len(name) + 1} \cup {i \in 1..Len(name) : name[i] = "."}} :
          \A d \in ends : d > Len(name) \/ \E e \in ends : e > d /\ e - d <= 64

\* The map Create works on, before and after the step.
InstancesBefore ==
    IF mgr'.last.op = "StorageManager.Create" THEN mgr.storages ELSE mgr.registries
InstancesAfter ==
    IF mgr'.last.op = "StorageManager.Create" THEN mgr'.storages ELSE mgr'.registries

\* The call registered a new instance under its alias and returned it.
Registered ==
    /\ mgr'.last.err = ""
    /\ ~mgr'.last.panicked
    /\ mgr'.last.instance # <<>>
    /\ ValidLowercaseDNS(mgr'.last.alias)
    /\ mgr'.last.alias \notin DOMAIN InstancesBefore
    /\ mgr'.last.className \in
          (IF mgr'.last.op = "StorageManager.Create" THEN StorageClasses ELSE RegistryClasses)
    /\ DOMAIN InstancesAfter = DOMAIN InstancesBefore \cup {mgr'.last.alias}
    /\ InstancesAfter[mgr'.last.alias] = mgr'.last.instance
    /\ \A a \in DOMAIN InstancesBefore : InstancesAfter[a] = InstancesBefore[a]

\* The call returned an error and left the alias-to-instance map as it was.
Refused ==
    /\ mgr'.last.err # ""
    /\ ~mgr'.last.panicked
    /\ mgr'.last.instance = <<>>
    /\ InstancesAfter = InstancesBefore

\* C23: every Manager.Create either registers a new instance under a valid
\* lowercase DNS alias that was not registered, for a class with a factory that
\* succeeds, or returns an error and leaves the alias-to-instance map unchanged
\* (an instance bound to a duplicate alias is kept); an invalid DNS name, a
\* duplicate alias and an unknown class are always refused.
C23_ManagerCreate ==
    [][nops' = nops + 1 =>
          /\ Registered \/ Refused
          /\ (\/ ~ValidLowercaseDNS(mgr'.last.alias)
              \/ mgr'.last.alias \in DOMAIN InstancesBefore
              \/ mgr'.last.className \notin StorageClasses \cup RegistryClasses) => Refused]_vars

----------------------------------------------------------------------------
(* Update: a range of the blob is overwritten *)

MaxUpdOps == 3        \* calls made one after another by the client that updates
MaxUpdLen == 2        \* longest data passed to Create and to Update
MaxUpdOffset == 3     \* largest offset passed to Update

EINVAL == "invalid argument"

\* f.Seek(offset) and the write of bytes: the file keeps what lies outside the
\* written range, and a range between the old end and the offset reads as zero
\* bytes.  Nothing written leaves the file as it is.
WriteAt(old, offset, bytes) ==
    IF bytes = <<>> THEN old
    ELSE [i \in 1..(IF Len(old) > offset + Len(bytes) THEN Len(old)
                    ELSE offset + Len(bytes)) |->
            IF i > offset /\ i <= offset + Len(bytes) THEN bytes[i - offset]
            ELSE IF i <= Len(old) THEN old[i]
            ELSE 0]

\* SimpleFileStorage.Update: io.CopyN for a positive length (io.EOF when the reader
\* is shorter, after writing what it had), io.Copy of the whole reader otherwise.
SimpleFileStorage_Update(f, hash, offset, length, data, now) ==
    LET artifactPath == getPaths(hash).artifactPath
        taken == IF length > 0 /\ length < Len(data) THEN SubSeq(data, 1, length) ELSE data
    IN IF artifactPath \notin DOMAIN f THEN [files |-> f, err |-> ENOENT]
       ELSE IF offset < 0 THEN [files |-> f, err |-> EINVAL]
       ELSE [files |-> IF taken = <<>> THEN f
                       ELSE WriteFile(f, artifactPath,
                                      DataFile(WriteAt(f[artifactPath].bytes, offset, taken),
                                               now)),
             err |-> IF length > 0 /\ Len(data) < length THEN EOF ELSE NoErr]

\* Update goes through HashComputingArtifactStorage and ConcurrentArtifactStorage
\* to SimpleFileStorage.Update; neither wrapper takes a lock.
Modify(p) ==
    /\ pc[p] = "update"
    /\ \E c \in {call[p]} :
       \E r \in {SimpleFileStorage_Update(files, c.hash, c.offset, c.length, c.data, c.now)} :
       \E a \in {Return(c, <<>>, r.err)} :
          /\ files' = r.files
          /\ pc' = [pc EXCEPT ![p] = a.pc]
          /\ call' = [call EXCEPT ![p] = a.call]
    /\ UNCHANGED <<locks, nops, trashed, given, uploadSessions, http, stream, mgr>>

UpdData == UNION {[1..n -> Bytes] : n \in 0..MaxUpdLen}

UpdRef == ArtifactReference(<<"lib">>, <<"test">>, 0)

UpdCreateCalls ==
    {[IdleCall EXCEPT !.op = "Create", !.hash = h, !.data = d, !.size = Len(d),
                      !.meta = <<ArtifactMeta(h, Len(d), 0, <<UpdRef>>)>>] :
        h \in KnownHashes, d \in UpdData}

UpdateCalls ==
    {[IdleCall EXCEPT !.op = "Update", !.hash = h, !.offset = o, !.length = n, !.data = d] :
        h \in KnownHashes, o \in -1..MaxUpdOffset, n \in -1..MaxUpdLen, d \in UpdData}

UpdReadCalls ==
    {[IdleCall EXCEPT !.op = "Read", !.hash = h, !.offset = 0, !.length = -1] :
        h \in KnownHashes}

UpdBegin ==
    /\ pc[Client] \in {"idle", "done"}
    /\ nops < MaxUpdOps
    /\ \E c \in UpdCreateCalls \cup UpdateCalls \cup UpdReadCalls : Begin(Client, c)

UpdNext ==
    \/ UpdBegin
    \/ Acquire(Client)
    \/ Inner(Client)
    \/ Unlock(Client)
    \/ Observe(Client)
    \/ Modify(Client)

SpecUpd == Init /\ [][UpdNext]_vars

\* The client's Update of a blob that ends before the offset returns nil.
UpdatesBeyondEnd ==
    /\ pc[Client] = "update"
    /\ pc'[Client] = "done"
    /\ call'[Client].err = NoErr
    /\ getPaths(call[Client].hash).artifactPath \in DOMAIN files
    /\ call[Client].offset > Len(files[getPaths(call[Client].hash).artifactPath].bytes)

\* C24: an Update whose offset exceeds the current file size fills the gap
\* [fileSize, offset) with zero bytes: afterwards the blob is the old content,
\* zero bytes up to the offset, then the written data (Create "Hello", Update at
\* offset 10 with "World", Read yields "Hello", five zero bytes, "World").
C24_ZeroPadding ==
    [][UpdatesBeyondEnd =>
          \E path \in {getPaths(call[Client].hash).artifactPath} :
          \E old \in {files[path].bytes}, new \in {files'[path].bytes} :
             /\ Len(new) >= call[Client].offset
             /\ SubSeq(new, 1, Len(old)) = old
             /\ \A i \in (Len(old) + 1)..call[Client].offset : new[i] = 0
             /\ SimpleFileStorage_Read(files', call[Client].hash, 0, -1).data = new]_vars
----------------------------------------------------------------------------
(* Properties of the references and the meta of a stored hash, for concurrent
   callers (SpecConc) *)

\* The hash under which a successful Create of caller p stored its blob: the hash
\* passed when it is resolved, the computed one otherwise.
FinalHash(p) ==
    IF isUnknownHash(call[p].hash) THEN call[p].computedHash ELSE call[p].hash

\* Caller p has returned from a successful Create.
Created(p) == pc[p] = "done" /\ call[p].op = "Create" /\ call[p].err = NoErr

\* Some caller has started a Delete(hash, ref) of the pair, or an UpdateMeta that
\* replaces the references of the hash by a list without the pair.
GivenBack(hash, pair) ==
    \E q \in Procs :
        \/ /\ call[q].op = "Delete"
           /\ call[q].hash = hash
           /\ RefPairs(call[q].ref) = {pair}
        \/ /\ call[q].op = "UpdateMeta"
           /\ call[q].meta[1].Hash = hash
           /\ pair \notin RefPairs(call[q].meta[1].References)

\* C25, as stated: once a Create that supplied reference r has returned successfully
\* for final hash F, r stays in the references of GetMeta(F) as long as no Delete(F, r)
\* is executed, whatever Creates, promotions, merging UpdateMetas and Deletes of other
\* references run on F meanwhile.
C25_NoReferenceLost ==
    \A p \in Procs :
        Created(p) =>
            \A pair \in SuppliedPairs(p) :
                GivenBack(FinalHash(p), pair)
                \/ /\ Stored(FinalHash(p)).err = NoErr
                   /\ pair \in RefPairs(Stored(FinalHash(p)).meta[1].References)

\* C26, as stated: a meta returned by GetMeta(K), which takes no lock, has hash K,
\* for every key K, a final hash during and after a promotion included.
C26_MetaHashIsKey ==
    \A p \in Procs :
        (pc[p] = "done" /\ call[p].op = "GetMeta" /\ call[p].err = NoErr
         /\ call[p].out # <<>>)
            => call[p].out[1].Hash = call[p].hash

\* GetMeta(hash) returns a meta for a blob of the live tree.
LiveMeta(hash) == Live(hash) /\ Stored(hash).err = NoErr /\ Stored(hash).meta # <<>>

\* The step in which the wrapped storage executes a locked call made within a
\* Create of caller p (the Create itself, or a call of its promotion).
CreateStep(p) ==
    /\ call[p].op = "Create"
    /\ call[p].phase = "inner"
    /\ call'[p].phase = "unlock"

\* C27, as stated: the creation time of a live hash is set by its first creation and
\* no step of a later Create (a merge on the known hash, a hash-computing Create of
\* the same content) changes GetMeta(H).createdAt, in any interleaving.
C27_CreatedAtPreserved ==
    [][\A p \in Procs : \A hash \in KnownHashes :
          (CreateStep(p) /\ LiveMeta(hash))
              => /\ LiveMeta(hash)'
                 /\ Stored(hash)'.meta[1].CreatedTimestamp
                        = Stored(hash).meta[1].CreatedTimestamp]_vars

\* No two references of the list share their (name, repo) pair.
IsRefSet(refs) ==
    \A i \in 1..Len(refs) : \A j \in 1..Len(refs) :
        (refs[i].Name = refs[j].Name /\ refs[i].Repo = refs[j].Repo) => i = j

\* C28, as stated: in every stored meta, after any sequence of operations, no two
\* references share the same (name, repo) pair.
C28_ReferencesAreSet ==
    \A path \in DOMAIN files :
        files[path].json # <<>> => IsRefSet(files[path].json[1].References)

\* Some caller is inside a Delete.
Deleting == \E p \in Procs : call[p].op = "Delete" /\ pc[p] # "done"

\* C29, as stated: whenever a blob is in the live tree and no Delete is in progress,
\* the reference set of its meta is non-empty.
C29_ReferencesNonEmpty ==
    \A hash \in KnownHashes :
        (LiveMeta(hash) /\ ~Deleting) => Stored(hash).meta[1].References # <<>>

----------------------------------------------------------------------------
(* Concurrent callers, one call each, among them Updates of a stored blob *)

UpdConcCalls ==
    {c \in UpdCreateCalls : Len(c.data) = 1}
    \cup {c \in CreateCalls({<<>>}) : c.data = ConcData /\ ~c.readErr /\ c.size = -1
                                       /\ c.meta = <<>>}
    \cup {c \in UpdateCalls : c.offset \in {0, 1} /\ c.length = -1 /\ Len(c.data) = 1}
    \cup {c \in DeleteCalls : c.ref = <<UpdRef>>}
    \cup {c \in UpdateMetaCalls : c.meta[1].Length = 1 /\ c.meta[1].References = <<>>}
    \cup UpdReadCalls

UpdConcBegin(p) ==
    /\ pc[p] = "idle"
    /\ \E c \in UpdConcCalls : Begin(p, c)

UpdConcNext ==
    \E p \in Procs :
        \/ UpdConcBegin(p)
        \/ Acquire(p)
        \/ Timeout(p)
        \/ Inner(p)
        \/ Unlock(p)
        \/ Observe(p)
        \/ Modify(p)

SpecUpdConc == Init /\ [][UpdConcNext]_vars

\* Caller q holds the lock of the hash.
HoldsLock(q, hash) == <<GetLockPath(hash), q>> \in locks

\* C30, as stated: an Update(H, ...) that writes executes while its caller holds
\* the per-hash lock of H, and so while no other caller holds it: it never overlaps
\* a Create, a Delete, an UpdateMeta or a Move into H on the same H.
C30_UpdateSerialised ==
    [][\A p \in Procs :
          (pc[p] = "update" /\ pc'[p] = "done" /\ files' # files)
              => /\ HoldsLock(p, call[p].hash)
                 /\ \A q \in Procs \ {p} : ~HoldsLock(q, call[p].hash)]_vars

----------------------------------------------------------------------------
(* Recovery from a torn blob, for the sequential client (Spec) *)

\* A Create that failed while streaming has left a blob at the hash with no meta.
Torn(hash) == Live(hash) /\ Stored(hash).err = ENOENT

\* C31, as stated: when a Create has left a partial blob at H with no meta, the next
\* Create(H, data, size, meta) that succeeds has rewritten the blob: afterwards
\* Read(H, 0, -1) yields data, never the partial bytes.
C31_TornBlobRewritten ==
    [][(/\ Runs("create")
        /\ Torn(call[Client].hash)
        /\ ~call[Client].readErr
        /\ call'[Client].res.err = NoErr)
       => /\ ReadAll(call[Client].hash)'.err = NoErr
          /\ ReadAll(call[Client].hash)'.data = call[Client].data]_vars

----------------------------------------------------------------------------
(* Concurrent Deletes of the references of one stored blob: the client stores the
   blob, then the callers delete references. Delete is modelled in the two steps
   it makes on the file system, the read of the meta and the write of its result. *)

MaxDelOps == 3      \* calls in all: the Create and the Deletes

DelHash == CHOOSE h \in KnownHashes : TRUE

DelRef(k) == ArtifactReference(k[1], k[2], 1)

\* The reference lists the blob is created with: two or three distinct references.
DelLists ==
    {refs \in [1..2 -> {DelRef(k) : k \in RefKeys}] \cup [1..3 -> {DelRef(k) : k \in RefKeys}] :
        \A i \in 1..Len(refs) : \A j \in 1..Len(refs) : refs[i] = refs[j] => i = j}

DelSetup ==
    /\ nops = 0
    /\ \E refs \in DelLists :
          Begin(Client, [IdleCall EXCEPT !.op = "Create", !.hash = DelHash,
                                         !.data = ConcData, !.size = Len(ConcData),
                                         !.meta = <<ArtifactMeta(DelHash, Len(ConcData),
                                                                 0, refs)>>])

\* The Create of the blob runs as one call of the wrapped storage.
DelCreate == pc[Client] = "create" /\ Inner(Client)

DelBegin(p) ==
    /\ nops >= 1
    /\ nops < MaxDelOps
    /\ pc[p] \in {"idle", "done"}
    /\ \A q \in Procs : call[q].op = "Create" => pc[q] = "done"
    /\ \E c \in DeleteCalls : Begin(p, c)

\* SimpleFileStorage.Delete, first step: existingMeta, err := s.GetMeta(ctx, hash).
DelRead(p) ==
    /\ pc[p] = "delete"
    /\ call[p].phase = "inner"
    /\ call' = [call EXCEPT ![p] = [call[p] EXCEPT !.phase = "write",
                                                   !.res = Res(GetMeta(files, call[p].hash))]]
    /\ UNCHANGED <<files, locks, pc, nops, trashed, given, uploadSessions, http, stream, mgr>>

\* SimpleFileStorage.Delete, second step: the reference is taken out of the meta
\* that was read, and the meta is written or the artifact moved to the trash.
DelWrite(p) ==
    /\ pc[p] = "delete"
    /\ call[p].phase = "write"
    /\ \E c \in {call[p]} :
       \E r \in {DeleteAfterRead(files, c.hash, c.ref[1], c.res)} :
          /\ files' = r.files
          /\ call' = [call EXCEPT ![p] = [c EXCEPT !.phase = "unlock", !.res = Res(r)]]
          /\ trashed' = TrashedAfter("delete", c, r)
          /\ given' = GivenAfter("delete", c, r)
    /\ UNCHANGED <<locks, pc, nops, uploadSessions, http, stream, mgr>>

DelNext ==
    \/ DelSetup
    \/ DelCreate
    \/ \E p \in Procs :
          \/ DelBegin(p)
          \/ Acquire(p)
          \/ Timeout(p)
          \/ DelRead(p)
          \/ DelWrite(p)
          \/ Unlock(p)

SpecDel == Init /\ [][DelNext]_vars

\* The references of the list but those of the pair, in the order of the list.
Without(refs, pair) == SelectSeq(refs, LAMBDA r : <<r.Name, r.Repo>> # pair)

\* The step in which the Delete of caller p writes its result.
DeleteTakesEffect(p) ==
    /\ pc[p] = "delete"
    /\ call[p].phase = "write"
    /\ call'[p].phase = "unlock"

\* A Delete of a reference the blob holds succeeds and removes that reference and
\* nothing else; when it was the last one, it returns nil and the blob is in the trash.
DeleteRemovesOne(p) ==
    LET hash == call[p].hash
        pair == <<call[p].ref[1].Name, call[p].ref[1].Repo>>
        refs == Stored(hash).meta[1].References
    IN (/\ DeleteTakesEffect(p)
        /\ LiveMeta(hash)
        /\ pair \in RefPairs(refs))
       => /\ call'[p].res.err = NoErr
          /\ IF RefPairs(refs) = {pair}
             THEN call'[p].res.meta = <<>> /\ InTrash(hash)'
             ELSE /\ LiveMeta(hash)'
                  /\ Stored(hash)'.meta[1].References = Without(refs, pair)
                  /\ call'[p].res.meta = Stored(hash)'.meta

\* Every caller has returned from a successful Delete on the blob, each of another
\* reference.
AllDeleted ==
    /\ \A p \in Procs :
          /\ pc[p] = "done"
          /\ call[p].op = "Delete"
          /\ call[p].hash = DelHash
          /\ call[p].err = NoErr
    /\ \A p \in Procs : \A q \in Procs \ {p} : call[p].ref # call[q].ref

DeletedPairs == UNION {RefPairs(call[p].ref) : p \in Procs}

\* C32: when concurrent Deletes remove distinct references of a live hash H through
\* the lock wrapper, each call whose reference H holds succeeds and removes exactly
\* that reference; afterwards no removed reference is back and none is listed twice,
\* and when a call has returned nil, it is the only one and H is in the trash.
C32_ConcurrentDeletes ==
    /\ [][\A p \in Procs : DeleteRemovesOne(p)]_vars
    /\ [](AllDeleted =>
            /\ LiveMeta(DelHash) =>
                  /\ IsRefSet(Stored(DelHash).meta[1].References)
                  /\ RefPairs(Stored(DelHash).meta[1].References) \cap DeletedPairs = {}
            /\ (\E p \in Procs : call[p].out = <<>>) =>
                  /\ InTrash(DelHash)
                  /\ Cardinality({p \in Procs : call[p].out = <<>>}) = 1)

\* Both callers have deleted their reference of the blob, one of them the last:
\* it got nil, and the blob is in the trash.
C32_Witness ==
    /\ AllDeleted
    /\ InTrash(DelHash)
    /\ Cardinality({p \in Procs : call[p].out = <<>>}) = 1
    /\ Cardinality({p \in Procs : call[p].out # <<>>}) = NProcs - 1

----------------------------------------------------------------------------
(* Properties of blob uploads onto a stored digest (SpecReg) *)

\* The meta GetMeta returns for the blob stored live under the digest, if any.
BlobMeta(f, digest) == GetMeta(f, getStorageKey(digest))

\* A blob holding exactly these bytes is stored live under the digest, with a meta.
StoredBlob(f, digest, bytes) ==
    /\ HoldsBytes(f, digest, bytes)
    /\ BlobMeta(f, digest).err = NoErr
    /\ BlobMeta(f, digest).meta # <<>>

\* C33, as stated: a single-request POST or a PUT completion whose bytes match the
\* declared digest succeeds also when a blob with that digest is already stored,
\* and afterwards the blob is still live and readable, with the uploader's
\* repository name among its references.
C33_ReuploadSucceeds ==
    [][(/\ WritesBlob
        /\ calculateDigest(http'.received) = http'.digest
        /\ StoredBlob(files, http'.digest, http'.received))
       => /\ http'.status = 201
          /\ StoredBlob(files', http'.digest, http'.received)
          /\ GetBlob(files', http'.name, http'.digest).err = NoErr
          /\ GetBlob(files', http'.name, http'.digest).data = http'.received
          /\ <<http'.name, <<"blob">>>>
                \in RefPairs(BlobMeta(files', http'.digest).meta[1].References)]_vars

\* A blob is stored live under the digest, with a meta.
LiveBlob(f, digest) ==
    /\ getPaths(getStorageKey(digest)).artifactPath \in DOMAIN f
    /\ BlobMeta(f, digest).err = NoErr
    /\ BlobMeta(f, digest).meta # <<>>

BlobBytes(f, digest) == f[getPaths(getStorageKey(digest)).artifactPath].bytes

\* C34, as stated: an upload rejected for digest mismatch never trashes or alters a
\* blob that was already stored and live under the declared digest, and removes no
\* reference that existed before the request.
C34_CleanupOnlyFresh ==
    [][(/\ WritesBlob
        /\ http'.code = "BLOB_UPLOAD_INVALID"
        /\ LiveBlob(files, http'.digest))
       => /\ LiveBlob(files', http'.digest)
          /\ BlobBytes(files', http'.digest) = BlobBytes(files, http'.digest)
          /\ RefPairs(BlobMeta(files, http'.digest).meta[1].References)
                \subseteq RefPairs(BlobMeta(files', http'.digest).meta[1].References)]_vars

----------------------------------------------------------------------------
(* Properties of the manifests of the private registry (SpecReg) *)

\* The meta stored under manifest-ref:{name}:{reference}.
TagPointer(f, name, reference) == GetMeta(f, getManifestRefKey(name, reference))

\* The step serves a PUT manifest and answers it 201.
PutsManifest ==
    /\ nops' = nops + 1
    /\ http'.op = "PutManifest"
    /\ http'.status = 201

\* C35, as stated: after a PutManifest of (name, reference), the meta stored under
\* manifest-ref:{name}:{reference} carries in its hash field the content digest of
\* the manifest just put, and GetManifest(name, reference) follows it and returns
\* the bytes just put.
C35_TagPointer ==
    [][PutsManifest
       => /\ TagPointer(files', http'.name, http'.reference).err = NoErr
          /\ TagPointer(files', http'.name, http'.reference).meta[1].Hash
                = calculateDigest(http'.data)
          /\ GetManifest(files', http'.name, http'.reference).err = NoErr
          /\ GetManifest(files', http'.name, http'.reference).data = http'.data]_vars

\* CheckManifestExists: the pointer meta, then the meta of the manifest it names.
CheckManifestExists(f, name, reference) ==
    Only({IF g.err # NoErr \/ g.meta[1].Hash = <<>>
          THEN [exists |-> FALSE, digest |-> <<>>]
          ELSE IF GetMeta(f, getStorageKey(g.meta[1].Hash)).err # NoErr
          THEN [exists |-> FALSE, digest |-> <<>>]
          ELSE [exists |-> TRUE, digest |-> g.meta[1].Hash] :
            g \in {GetMeta(f, getManifestRefKey(name, reference))}})

HeadManifestResponse(req, found) ==
    IF ~found.exists THEN WriteError(req, "MANIFEST_UNKNOWN")
    ELSE [req EXCEPT !.status = 200, !.contentDigest = found.digest]

handleHeadManifest(name, reference) ==
    LET req == [Request("HeadManifest", name) EXCEPT !.reference = reference]
    IN /\ Served
       /\ \E found \in {CheckManifestExists(files, name, reference)} :
             http' = HeadManifestResponse(req, found)
       /\ UNCHANGED <<files, uploadSessions>>

\* The {reference} of /v2/{name}/manifests/{reference}: a tag or a digest.
ManifestData == {d \in Data : Len(d) <= 1}
ManifestReferences == RegReferences \cup {calculateDigest(d) : d \in ManifestData}

ManifestNext ==
    \/ \E n \in RegNames, r \in ManifestReferences, d \in ManifestData :
          handlePutManifest(n, r, d)
    \/ \E n \in RegNames, r \in ManifestReferences : handleGetManifest(n, r)
    \/ \E n \in RegNames, r \in ManifestReferences : handleHeadManifest(n, r)

SpecManifest == Init /\ [][ManifestNext]_vars

\* The step serves a GET or a HEAD of the manifest by the digest of the bytes the
\* PUT manifest answered just before stored for the same repository.
ReadsByDigest ==
    /\ http.op = "PutManifest"
    /\ http.status = 201
    /\ nops' = nops + 1
    /\ http'.op \in {"GetManifest", "HeadManifest"}
    /\ http'.name = http.name
    /\ http'.reference = calculateDigest(http.data)

\* C36, as stated: after PutManifest(name, tag, data), a GET or a HEAD of
\* /v2/{name}/manifests/{digest} with digest the sha256 of data is answered 200 with
\* that digest as Docker-Content-Digest, the GET with the same bytes.
C36_ManifestByDigest ==
    [][ReadsByDigest
       => /\ http'.status = 200
          /\ http'.contentDigest = calculateDigest(http.data)
          /\ http'.op = "GetManifest" => http'.body = http.data]_vars

----------------------------------------------------------------------------
\* The chunked upload on its own: POST starts a session, PATCH and PUT address any
\* uuid the registry could have issued, or one it never issued, and the sweep
\* removes the expired sessions.
SessUUIDs == {<<t, k>> : t \in 0..MaxRegOps, k \in 0..(MaxRegOps - 1)}

SessNext ==
    \/ \E n \in RegNames : handleStartBlobUpload(n)
    \/ \E n \in RegNames, u \in SessUUIDs, d \in Data, o \in ContentRanges :
          handleUploadBlobChunk(n, u, d, o)
    \/ \E n \in RegNames, u \in SessUUIDs, g \in RegDigests \cup {<<>>}, d \in Data :
          handleCompleteBlobUpload(n, u, g, d)
    \/ cleanupExpiredSessions

SpecSess == Init /\ [][SessNext]_vars

\* The step serves a PATCH or a PUT of /v2/{name}/blobs/uploads/{uuid}.
ServesUpload == nops' = nops + 1 /\ http'.op \in {"UploadBlobChunk", "CompleteBlobUpload"}

UnknownUpload == http'.status = 404 /\ http'.code = "BLOB_UPLOAD_UNKNOWN"

\* A session appears only in the POST that starts it, under a uuid stamped with the
\* time of that POST, and disappears only in a PUT completion that names it or in a
\* sweep that finds it expired.
SessionLifecycle ==
    LET before == DOMAIN uploadSessions
        after == DOMAIN uploadSessions'
    IN /\ after \ before # {}
          => /\ nops' = nops + 1
             /\ http'.op = "StartBlobUpload"
             /\ after \ before = {http'.uuid}
             /\ http'.uuid[1] = nops'
       /\ before \ after # {}
          => \/ /\ nops' = nops + 1
                /\ http'.op = "CompleteBlobUpload"
                /\ http'.digest # <<>>
                /\ before \ after = {http'.uuid}
             \/ /\ nops' = nops
                /\ before \ after = Expired(uploadSessions, nops)
       /\ (ServesUpload /\ http'.status = 201) => http'.uuid \notin after
       /\ \A u \in after : u[1] <= nops'

\* C37, as stated: sessions come and go as in SessionLifecycle, and every PATCH or
\* PUT on a uuid that has no session, because its upload was completed or was never
\* started, is answered 404 BLOB_UPLOAD_UNKNOWN.
C37_SessionLifecycle ==
    [][/\ SessionLifecycle
       /\ (ServesUpload /\ http'.uuid \notin DOMAIN uploadSessions) => UnknownUpload]_vars

\* C37, amended: the same, for every PATCH and for every PUT that carries a digest
\* parameter; a PUT without one is answered 400 BLOB_UPLOAD_INVALID whatever the
\* uuid, and leaves the sessions alone.
C37_SessionLifecycleWithDigest ==
    [][/\ SessionLifecycle
       /\ (ServesUpload /\ http'.uuid \notin DOMAIN uploadSessions)
          => IF http'.op = "CompleteBlobUpload" /\ http'.digest = <<>>
             THEN /\ http'.status = 400
                  /\ http'.code = "BLOB_UPLOAD_INVALID"
                  /\ uploadSessions' = uploadSessions
             ELSE UnknownUpload]_vars

\* The first POST started <<1, 0>>, a PUT completed it and stored its blob, and the
\* PATCH on it that followed has been answered as unknown.
C37_Witness ==
    /\ http.op = "UploadBlobChunk"
    /\ http.uuid = <<1, 0>>
    /\ \E g \in RegDigests : LiveBlob(files, g)
    /\ http.status = 404
    /\ http.code = "BLOB_UPLOAD_UNKNOWN"
    /\ nops = MaxRegOps
    /\ uploadSessions = <<>>

----------------------------------------------------------------------------
\* The sweep over time.  Time passes between requests too: the clock runs on after
\* the last request until every session the requests started is older than the
\* time to live.
MaxSweepTime == MaxRegOps + SessionTTL + 1

Tick ==
    /\ nops < MaxSweepTime
    /\ nops' = nops + 1
    /\ UNCHANGED <<files, locks, pc, call, trashed, given, uploadSessions, http, stream,
                   mgr>>

SweepNext ==
    \/ \E n \in RegNames : handleStartBlobUpload(n)
    \/ \E n \in RegNames, u \in RegUUIDs, d \in Data : handleUploadBlobChunk(n, u, d, -1)
    \/ \E n \in RegNames, u \in RegUUIDs, g \in RegDigests, d \in Data :
          handleCompleteBlobUpload(n, u, g, d)
    \/ cleanupExpiredSessions
    \/ Tick

\* The ticker of cleanupExpiredSessions fires every hour for as long as the service
\* lives, and time passes: neither the sweep nor the clock is put off for ever.
SpecSweep ==
    /\ Init
    /\ [][SweepNext]_vars
    /\ WF_vars(cleanupExpiredSessions)
    /\ WF_vars(Tick)

\* The step is a run of the sweep that removes something.
Sweeps == nops' = nops /\ uploadSessions' # uploadSessions

Age(u) == nops - uploadSessions[u].CreatedAt

\* C38: a run of the sweep removes exactly the sessions older than the time to
\* live and leaves the others as they are, so it never drops a session that is at
\* most that old; and every session is eventually removed, by the sweep if no PUT
\* completes it.
C38_SessionExpiry ==
    /\ [][Sweeps
          => /\ DOMAIN uploadSessions' =
                   {u \in DOMAIN uploadSessions : Age(u) <= SessionTTL}
             /\ \A u \in DOMAIN uploadSessions' : uploadSessions'[u] = uploadSessions[u]
             /\ \A u \in DOMAIN uploadSessions \ DOMAIN uploadSessions' :
                   Age(u) > SessionTTL]_vars
    /\ \A u \in SessUUIDs :
          (u \in DOMAIN uploadSessions) ~> (u \notin DOMAIN uploadSessions)

\* The sweep has run with two sessions open: it removed the one started at 1, older
\* than the time to live, and kept the one started at 2, exactly that old.
C38_Witness ==
    /\ http.op = "StartBlobUpload"
    /\ http.uuid = <<2, 1>>
    /\ DOMAIN uploadSessions = {<<2, 1>>}
    /\ nops - uploadSessions[<<2, 1>>].CreatedAt = SessionTTL

----------------------------------------------------------------------------
\* A GetBlob for the digest received at time now would be served from the cache:
\* the condition under which GetBlob takes its cache-hit branch.
ServedFromCache(f, name, digest, now) ==
    LET g == GetMeta(f, getCacheKey(name, digest))
        rd == SimpleFileStorage_Read(f, getCacheKey(name, digest), 0, -1)
    IN g.err = NoErr /\ g.meta # <<>> /\ ~isCacheExpired(g.meta, now) /\ rd.err = NoErr

\* The request at rest is a miss for a digest whose cache entry was filled before
\* and had expired when the request came, and the upstream delivered the body:
\* within the TTL of a fill the request would have been a hit (C21).
Refetched ==
    /\ Finished
    /\ stream.phase = "miss"
    /\ stream.digest \in DOMAIN stream.filled
    /\ stream.filled[stream.digest] < stream.now
    /\ stream.streamErr \notin {UpstreamReadFailed, BodyClosed}

\* C39, as stated: after the refetch of an expired cache entry, a GetBlob for the
\* same digest received within the TTL of the refetch is served from the cache.
C39_RefetchRefreshes ==
    Refetched
       => \A now \in (nops + 1)..(stream.now + CacheTTL) :
             ServedFromCache(files, stream.name, stream.digest, now)

----------------------------------------------------------------------------
\* Close of the streaming reader, and what follows it.
MaxCloseOps == 2      \* GetBlob requests served, the second with the blob file present
MaxCloseAgain == 1    \* calls of Close after the first one returned

CloseGetBlob(name, body, size, reachable) ==
    /\ nops < MaxCloseOps
    /\ ProxyGetBlob(name, body, size, reachable)

\* streamingBlobReader.Close with s.closed set: it returns nil under the mutex and
\* touches nothing.
ClientCloseAgain ==
    /\ stream.phase = "miss"
    /\ stream.clientPc = "closed"
    /\ stream.closedAgain < MaxCloseAgain
    /\ stream' = [stream EXCEPT !.closedAgain = @ + 1]
    /\ UNCHANGED <<files, locks, pc, call, nops, trashed, given, uploadSessions, http, mgr>>

CloseNext ==
    \/ \E name \in ProxyNames, body \in UpstreamBlobs, reachable \in BOOLEAN :
       \E size \in {Len(body), -1} : CloseGetBlob(name, body, size, reachable)
    \/ CacheCreate
    \/ CacheRead
    \/ CacheWrite
    \/ CacheMeta
    \/ StreamRead
    \/ StreamTee
    \/ StreamRespond
    \/ StreamCloseResponse
    \/ StreamCloseCache
    \/ ClientRead
    \/ ClientCloseReader
    \/ ClientCloseUpstream
    \/ ClientCloseResponseWriter
    \/ ClientCloseCacheWriter
    \/ ClientCloseCacheReader
    \/ ClientCloseAgain

\* The Go scheduler runs each goroutine that can take a step, and a Close that was
\* called runs on to its return; when the client reads or closes is up to the client.
SpecClose ==
    /\ Init
    /\ [][CloseNext]_vars
    /\ WF_vars(CacheCreate) /\ WF_vars(CacheRead) /\ WF_vars(CacheWrite)
    /\ WF_vars(CacheMeta)
    /\ WF_vars(StreamRead) /\ WF_vars(StreamTee) /\ WF_vars(StreamRespond)
    /\ WF_vars(StreamCloseResponse) /\ WF_vars(StreamCloseCache)
    /\ WF_vars(ClientCloseUpstream) /\ WF_vars(ClientCloseResponseWriter)
    /\ WF_vars(ClientCloseCacheWriter) /\ WF_vars(ClientCloseCacheReader)

\* Close was called on the reader of a miss and has not returned yet.
Closing ==
    stream.clientPc \in {"close_upstream", "close_response_writer", "close_cache_writer",
                         "close_cache_reader"}

\* Close has returned on the reader of a miss.
Closed == stream.phase = "miss" /\ stream.clientPc = "closed"

EveryPipeEndClosed ==
    /\ stream.responsePipe.rerr # ""
    /\ stream.responsePipe.werr # ""
    /\ stream.cachePipe.rerr # ""
    /\ stream.cachePipe.werr # ""
    /\ stream.upstreamClosed

\* C40: a Close called on the reader of a miss, whatever the point of the stream,
\* returns; when it has returned every pipe end and the upstream body are closed; a
\* further Close changes nothing; and both goroutines come to their end.
C40_CloseTerminates ==
    /\ Closing ~> Closed
    /\ [](Closed => EveryPipeEndClosed)
    /\ [][stream'.closedAgain > stream.closedAgain
          => /\ Closed
             /\ [stream' EXCEPT !.closedAgain = 0] = [stream EXCEPT !.closedAgain = 0]
             /\ files' = files]_vars
    /\ Closed ~> (stream.streamPc = "done" /\ stream.cachePc = "done")

\* The client read one byte of a two-byte blob and called Close, then called it
\* again; both goroutines have ended and every pipe end is closed.
C40_Witness ==
    /\ Closed
    /\ stream.outcome = "abandoned"
    /\ Len(stream.body) = 2
    /\ Len(stream.received) = 1
    /\ stream.closedAgain = 1
    /\ stream.streamPc = "done"
    /\ stream.cachePc = "done"
    /\ EveryPipeEndClosed

====
